---- MODULE Spec2Model ----
(***************************************************************************)
(* Comments service: cursor pagination over the by-video time index,       *)
(* per-page ranking, the cursor codec and the counter mutations, modelled  *)
(* from utils/ranking.ts, services/commentsService.ts and                  *)
(* controllers/commentsController.ts.                                      *)
(*                                                                         *)
(* Conventions.  A Date is its epoch value in milliseconds; the Invalid    *)
(* Date (NaN) is InvalidDate.  An id is a positive integer ordered as the  *)
(* store orders UUIDs; the JavaScript value undefined is Undefined.  The   *)
(* columns user_id and content take part in no decision of the code and    *)
(* are left out of the rows.                                               *)
(***************************************************************************)
EXTENDS Integers, Sequences, FiniteSets, TLC

VARIABLES
    comments,                \* table comments, one row per id
    comments_by_video_time,  \* table comments_by_video_time (video_id, created_at, id)
    replies,                 \* table replies, one row per id
    replies_by_comment_time, \* table replies_by_comment_time (comment_id, created_at, id)
    now,                     \* the wall clock read by new Date()
    walk,                    \* a client following next_cursor page after page
    last,                    \* the last listing request and its response
    calls,                   \* mutation calls in flight, one record per caller
    codec,                   \* one run of the cursor codec
    client                   \* the module's store client, by how far it is set up

vars == <<comments, comments_by_video_time, replies, replies_by_comment_time,
          now, walk, last, calls, codec, client>>

tables == <<comments, comments_by_video_time, replies, replies_by_comment_time>>

----------------------------------------------------------------------------
(* Bounds of the model *)

MaxId == 5
MaxTime == 2
MaxLimit == 3
CodecMaxTime == 2002

Ids == 1..MaxId
Times == 0..MaxTime
Videos == {"v1", "v2"}

Undefined == 0
InvalidDate == -1

\* The module variable client of config/database.ts: null, or the one Client
\* object by how far connectToDatabase has set it up: constructed, connected,
\* keyspace created, tables created (ready), or left behind by an attempt
\* that failed.
NoClient == "null"
Ready == "ready"

MsPerSecond == 1000

Min(a, b) == IF a <= b THEN a ELSE b
Max(a, b) == IF a >= b THEN a ELSE b

----------------------------------------------------------------------------
(* Cursor codec: utils/ranking.ts                                          *)
(*                                                                         *)
(* A base64 token is modelled by what Buffer.from(cursor, 'base64') and    *)
(* JSON.parse make of it: text that is no JSON ("garbage"), the JSON null, *)
(* a JSON scalar ("primitive"), or a JSON object with its createdAt and id *)
(* members.  An ISO-8601 string is the tuple <<seconds, milliseconds>>, a  *)
(* string that is no date is NotADate and a missing member is Absent.      *)

Absent == <<>>
NotADate == <<-1>>
NoToken == [kind |-> "none", createdAt |-> Absent, id |-> Undefined]

\* Mutant: a format with second precision, the milliseconds dropped.
toISOString_Seconds(d) == <<d \div MsPerSecond, 0>>

\* Date.prototype.toISOString: millisecond precision.
toISOString(d) == <<d \div MsPerSecond, d % MsPerSecond>>

\* new Date(value) for a JSON member: undefined or an unparseable string give
\* the Invalid Date, never an exception.
NewDate(s) == IF Len(s) = 2 THEN s[1] * MsPerSecond + s[2] ELSE InvalidDate

encodeCursor(createdAt, id) ==
    [kind |-> "object", createdAt |-> toISOString(createdAt), id |-> id]

InvalidCursorFormat == "Invalid cursor format"
CursorError == [error |-> InvalidCursorFormat, createdAt |-> InvalidDate, id |-> Undefined]

\* JSON.parse throws on garbage and decoded.createdAt throws on null: both are
\* caught and rethrown as 'Invalid cursor format'.  Nothing else throws.
decodeCursor(cursor) ==
    IF cursor.kind \in {"garbage", "null"}
    THEN CursorError
    ELSE IF cursor.kind = "primitive"
    THEN [error |-> "", createdAt |-> InvalidDate, id |-> Undefined]
    ELSE [error |-> "", createdAt |-> NewDate(cursor.createdAt), id |-> cursor.id]

----------------------------------------------------------------------------
(* Scoring engine: utils/ranking.ts.  Scores are kept in half points (twice *)
(* the JavaScript number), so that replyCount * 0.5 stays an integer; the   *)
(* comparator b.score - a.score orders half points as it orders points.     *)

MsPerHour == 3600000

\* (now.getTime() - createdAt.getTime()) / (1000 * 60 * 60), exactly: the
\* quotient as whole hours plus a part of less than an hour in milliseconds
\* (of either sign), taken apart before the subtraction so that an age of
\* weeks stays within the integers of the checker.
hoursSinceCreated(createdAt) ==
    [whole |-> (now \div MsPerHour) - (createdAt \div MsPerHour),
     part |-> (now % MsPerHour) - (createdAt % MsPerHour)]

\* hours <= k
AtMost(hours, k) == IF hours.whole = k THEN hours.part <= 0 ELSE hours.whole < k

\* Mutant: hours < k.
Below(hours, k) == IF hours.whole = k THEN hours.part < 0 ELSE hours.whole < k

\* Mutant: the bonus of the second day put above the bonus of the first.
calculateRecencyFactor_Rising(createdAt) ==
    LET hours == hoursSinceCreated(createdAt) IN
    IF AtMost(hours, 1) THEN 10
    ELSE IF AtMost(hours, 6) THEN 8
    ELSE IF AtMost(hours, 24) THEN 6
    ELSE IF AtMost(hours, 168) THEN 7
    ELSE IF AtMost(hours, 672) THEN 2
    ELSE 0

\* Mutant: the thresholds taken as exclusive upper bounds.
calculateRecencyFactor_Exclusive(createdAt) ==
    LET hours == hoursSinceCreated(createdAt) IN
    IF Below(hours, 1) THEN 10
    ELSE IF Below(hours, 6) THEN 8
    ELSE IF Below(hours, 24) THEN 6
    ELSE IF Below(hours, 168) THEN 4
    ELSE IF Below(hours, 672) THEN 2
    ELSE 0

calculateRecencyFactor(createdAt) ==
    LET hours == hoursSinceCreated(createdAt) IN
    IF AtMost(hours, 1) THEN 10
    ELSE IF AtMost(hours, 6) THEN 8
    ELSE IF AtMost(hours, 24) THEN 6
    ELSE IF AtMost(hours, 168) THEN 4
    ELSE IF AtMost(hours, 672) THEN 2
    ELSE 0

calculateNetScore(item) == item.likes - item.dislikes

\* Mutant: the reply boost added without its cap.
calculateCommentScore_NoCap(comment) ==
    2 * Max(0, calculateNetScore(comment))
    + 2 * calculateRecencyFactor(comment.created_at)
    + comment.reply_count

\* Mutant: the net score added without the floor at 0.
calculateCommentScore_NoFloor(comment) ==
    2 * calculateNetScore(comment)
    + 2 * calculateRecencyFactor(comment.created_at)
    + Min(comment.reply_count, 10)

\* In half points: 2 * (max(0, net) + recency + min(replyCount * 0.5, 5)).
calculateCommentScore(comment) ==
    2 * Max(0, calculateNetScore(comment))
    + 2 * calculateRecencyFactor(comment.created_at)
    + Min(comment.reply_count, 10)

\* Mutant: a reply scored with a boost of half a point.
calculateReplyScore_Boosted(reply) ==
    2 * Max(0, calculateNetScore(reply))
    + 2 * calculateRecencyFactor(reply.created_at)
    + 1

\* In half points: 2 * (max(0, net) + recency).
calculateReplyScore(reply) ==
    2 * Max(0, calculateNetScore(reply))
    + 2 * calculateRecencyFactor(reply.created_at)

\* Math.floor((now.getTime() - createdAt.getTime()) / 1000), the two dates
\* taken apart into seconds and milliseconds before the subtraction.
secondsAgo(createdAt) ==
    (now \div MsPerSecond) - (createdAt \div MsPerSecond)
    - (IF now % MsPerSecond < createdAt % MsPerSecond THEN 1 ELSE 0)

intervals ==
    <<[label |-> "year", seconds |-> 31536000],
      [label |-> "month", seconds |-> 2592000],
      [label |-> "week", seconds |-> 604800],
      [label |-> "day", seconds |-> 86400],
      [label |-> "hour", seconds |-> 3600],
      [label |-> "minute", seconds |-> 60]>>

JustNow == [count |-> 0, unit |-> "just now"]

\* Mutant: the unit always in the plural.
Pluralized_Always(label, count) == label \o "s"

\* `${interval.label}${count > 1 ? 's' : ''}`
Pluralized(label, count) == IF count > 1 THEN label \o "s" ELSE label

RECURSIVE TimeAgoFrom(_, _)
\* The loop of formatTimeAgo from interval k on: the first interval with a
\* count of at least 1 gives `${count} ${unit} ago`, here the pair of the
\* count and the unit as printed; none gives 'just now'.
TimeAgoFrom(k, seconds) ==
    IF k > Len(intervals) THEN JustNow
    ELSE LET count == seconds \div intervals[k].seconds
         IN IF count >= 1
            THEN [count |-> count, unit |-> Pluralized(intervals[k].label, count)]
            ELSE TimeAgoFrom(k + 1, seconds)

formatTimeAgo(createdAt) == TimeAgoFrom(1, secondsAgo(createdAt))

----------------------------------------------------------------------------
(* Keyed time index: services/commentsService.ts *)

\* Clustering order of (created_at, id): a sorts before b under
\* CLUSTERING ORDER BY (created_at DESC, id DESC) iff KeyLess(b, a).
KeyLess(a, b) ==
    \/ a.created_at < b.created_at
    \/ a.created_at = b.created_at /\ a.id < b.id

\* Mutant: the seek bound without the id tiebreak, created_at < ?.
BelowSeek_TimeOnly(row, lastCreatedAt, lastId) == row.created_at < lastCreatedAt

\* Mutant: the seek bound taken inclusively, (created_at, id) <= (?, ?).
BelowSeek_Inclusive(row, lastCreatedAt, lastId) ==
    \/ row.created_at < lastCreatedAt
    \/ row.created_at = lastCreatedAt /\ row.id <= lastId

\* Mutant: the seek compares the ids and ignores the creation times.
BelowSeek_IdOnly(row, lastCreatedAt, lastId) == row.id < lastId

\* The CQL tuple relation (created_at, id) < (?, ?).
BelowSeek(row, lastCreatedAt, lastId) ==
    \/ row.created_at < lastCreatedAt
    \/ row.created_at = lastCreatedAt /\ row.id < lastId

RECURSIVE OrderDesc(_)
\* ORDER BY created_at DESC, id DESC over a set of rows with distinct keys.
OrderDesc(S) ==
    IF S = {} THEN <<>>
    ELSE LET top == CHOOSE r \in S : \A q \in S \ {r} : KeyLess(q, r)
         IN <<top>> \o OrderDesc(S \ {top})

Take(seq, n) == SubSeq(seq, 1, Min(n, Len(seq)))

UndefinedDate == -2

\* Mutant: the seek position never applied.
Truthy_Never(lastCreatedAt, lastId) == FALSE

\* JavaScript truthiness of the two optional parameters: a Date object is
\* truthy even when invalid, undefined and the empty id are not.
Truthy(lastCreatedAt, lastId) == lastCreatedAt # UndefinedDate /\ lastId # Undefined

\* SELECT * FROM comments_by_video_time WHERE video_id = ? [AND (created_at, id)
\* < (?, ?)] ORDER BY created_at DESC, id DESC LIMIT ?.  The store client
\* rejects an Invalid Date bound to a timestamp, and the promise rejects.
getCommentsByVideoIdWithCursor(videoId, limit, lastCreatedAt, lastId) ==
    LET ofVideo == {r \in comments_by_video_time : r.video_id = videoId} IN
    IF Truthy(lastCreatedAt, lastId)
    THEN IF lastCreatedAt = InvalidDate
         THEN [failed |-> TRUE, rows |-> <<>>]
         ELSE [failed |-> FALSE,
               rows |-> Take(OrderDesc({r \in ofVideo :
                                 BelowSeek(r, lastCreatedAt, lastId)}), limit)]
    ELSE [failed |-> FALSE, rows |-> Take(OrderDesc(ofVideo), limit)]

\* SELECT COUNT(*) FROM comments WHERE video_id = ?
getCommentCountByVideoId(videoId) ==
    Cardinality({r \in comments : r.video_id = videoId})

\* SELECT * FROM replies_by_comment_time WHERE comment_id = ? [AND (created_at,
\* id) < (?, ?)] ORDER BY created_at DESC, id DESC LIMIT ?
getRepliesWithCursor(commentId, limit, lastCreatedAt, lastId) ==
    LET ofComment == {r \in replies_by_comment_time : r.comment_id = commentId} IN
    IF Truthy(lastCreatedAt, lastId)
    THEN IF lastCreatedAt = InvalidDate
         THEN [failed |-> TRUE, rows |-> <<>>]
         ELSE [failed |-> FALSE,
               rows |-> Take(OrderDesc({r \in ofComment :
                                 BelowSeek(r, lastCreatedAt, lastId)}), limit)]
    ELSE [failed |-> FALSE, rows |-> Take(OrderDesc(ofComment), limit)]

\* SELECT COUNT(*) FROM replies WHERE comment_id = ?
getReplyCountByCommentId(commentId) ==
    Cardinality({r \in replies : r.comment_id = commentId})

----------------------------------------------------------------------------
(* Page assembler: utils/ranking.ts *)

RankedReply(reply) ==
    [id |-> reply.id, comment_id |-> reply.comment_id,
     created_at |-> reply.created_at, likes |-> reply.likes,
     dislikes |-> reply.dislikes,
     netScore |-> calculateNetScore(reply),
     timeAgo |-> formatTimeAgo(reply.created_at),
     score |-> calculateReplyScore(reply)]

RankedComment(comment) ==
    [id |-> comment.id, video_id |-> comment.video_id,
     created_at |-> comment.created_at, likes |-> comment.likes,
     dislikes |-> comment.dislikes, reply_count |-> comment.reply_count,
     netScore |-> calculateNetScore(comment),
     timeAgo |-> formatTimeAgo(comment.created_at),
     score |-> calculateCommentScore(comment)]

\* Mutant: x goes ahead of the items of its own score.
InsertByScore_AheadOfTies(sorted, x) ==
    LET k == Cardinality({i \in 1..Len(sorted) : sorted[i].score > x.score})
    IN SubSeq(sorted, 1, k) \o <<x>> \o SubSeq(sorted, k + 1, Len(sorted))

\* One step of the stable sort: x goes behind every item whose score is not
\* smaller, so that equal scores keep their order of arrival.
InsertByScore(sorted, x) ==
    LET k == Cardinality({i \in 1..Len(sorted) : sorted[i].score >= x.score})
    IN SubSeq(sorted, 1, k) \o <<x>> \o SubSeq(sorted, k + 1, Len(sorted))

RECURSIVE SortByScore_DropTies(_)
\* Mutant: a sort that keeps one item per score.
SortByScore_DropTies(items) ==
    IF items = <<>> THEN <<>>
    ELSE LET rest == SortByScore_DropTies(SubSeq(items, 1, Len(items) - 1))
             x == items[Len(items)]
         IN IF \E i \in 1..Len(rest) : rest[i].score = x.score THEN rest
            ELSE InsertByScore(rest, x)

RECURSIVE SortByScore(_)
\* [...items].sort((a, b) => b.score - a.score): descending, stable.
SortByScore(items) ==
    IF items = <<>> THEN <<>>
    ELSE InsertByScore(SortByScore(SubSeq(items, 1, Len(items) - 1)),
                       items[Len(items)])

\* Mutant: no cursor is ever generated.
generateNextCursor_Never(chronologicalItems) == NoToken

\* Mutant: the cursor taken from the first item of the slice.
generateNextCursor_First(chronologicalItems) ==
    IF Len(chronologicalItems) = 0 THEN NoToken
    ELSE encodeCursor(chronologicalItems[1].created_at, chronologicalItems[1].id)

generateNextCursor(chronologicalItems) ==
    IF Len(chronologicalItems) = 0 THEN NoToken
    ELSE LET lastItem == chronologicalItems[Len(chronologicalItems)]
         IN encodeCursor(lastItem.created_at, lastItem.id)

\* Mutant: the fetched rows used without truncation to the page size.
ChronologicalSlice_NoTruncate(rows, limit) == rows

\* comments.slice(0, limit)
ChronologicalSlice(rows, limit) == Take(rows, limit)

\* Mutant: the cursor taken from the last fetched row, the over-fetched one.
CursorSlice_Fetched(rows, limit) == rows

\* comments.slice(0, limit), the argument of generateNextCursor
CursorSlice(rows, limit) == Take(rows, limit)

getTopComments(rows, limit, lastCursor, sort) ==
    LET hasMore == Len(rows) > limit
        chronologicalSlice == ChronologicalSlice(rows, limit)
        commentsWithMetadata ==
            [i \in 1..Len(chronologicalSlice) |-> RankedComment(chronologicalSlice[i])]
        sortedComments ==
            IF sort = "chronological" THEN commentsWithMetadata
            ELSE SortByScore(commentsWithMetadata)
    IN [comments |-> sortedComments,
        nextCursor |-> IF hasMore THEN generateNextCursor(CursorSlice(rows, limit))
                       ELSE NoToken,
        hasMore |-> hasMore]

\* Mutant: the replies of a comment left in the order they were fetched.
rankReplies_Unranked(replyRows) ==
    [i \in 1..Len(replyRows) |-> RankedReply(replyRows[i])]

\* replies.map(...).sort((a, b) => b.score - a.score)
rankReplies(replyRows) ==
    SortByScore([i \in 1..Len(replyRows) |-> RankedReply(replyRows[i])])

\* { ...comment, replies: limitedReplies }
WithReplies(comment, limitedReplies) ==
    [f \in DOMAIN comment \cup {"replies"} |->
        IF f = "replies" THEN limitedReplies ELSE comment[f]]

getCommentsWithReplies(rows, replyRows, limit, repliesLimit, lastCursor, sort) ==
    LET hasMore == Len(rows) > limit
        chronologicalSlice == ChronologicalSlice(rows, limit)
        commentsWithMetadata ==
            [i \in 1..Len(chronologicalSlice) |-> RankedComment(chronologicalSlice[i])]
        sortedComments ==
            IF sort = "chronological" THEN commentsWithMetadata
            ELSE SortByScore(commentsWithMetadata)
        commentsWithReplies ==
            [i \in 1..Len(sortedComments) |->
                LET comment == sortedComments[i]
                    commentReplies ==
                        SelectSeq(replyRows, LAMBDA r : r.comment_id = comment.id)
                IN WithReplies(comment, Take(rankReplies(commentReplies), repliesLimit))]
    IN [comments |-> commentsWithReplies,
        nextCursor |-> IF hasMore THEN generateNextCursor(CursorSlice(rows, limit))
                       ELSE NoToken,
        hasMore |-> hasMore]

----------------------------------------------------------------------------
(* Listing handler: controllers/commentsController.ts, getComments.  The   *)
(* branches type=top and no type run the same statements.  The result is   *)
(* the HTTP response together with what the handler asked of the store:    *)
(* queries counts the store calls issued, fetched holds the rows returned  *)
(* by the index query.                                                     *)

Sorts == {"ranked", "chronological"}

\* The parameter sort of getTopComments is left to its default: the handler
\* reads type, limit, cursor and replies_limit from the query and nothing else.
DefaultSort == "ranked"

ErrorResponse(code, nqueries) ==
    [status |-> code, data |-> <<>>, next_cursor |-> NoToken, has_more |-> FALSE,
     total_estimated |-> 0, queries |-> nqueries, fetched |-> <<>>]

\* Mutant: the index asked for the page size and no more.
dbLimit_Exact(limitNum) == limitNum

\* const dbLimit = limitNum + 1
dbLimit(limitNum) == limitNum + 1

getComments(req) ==
    LET parsed == IF req.cursor # NoToken THEN decodeCursor(req.cursor)
                  ELSE [error |-> "", createdAt |-> UndefinedDate, id |-> Undefined]
    IN IF parsed.error # "" THEN ErrorResponse(400, 0)
       ELSE LET q == getCommentsByVideoIdWithCursor(
                         req.videoId, dbLimit(req.limit), parsed.createdAt, parsed.id)
            IN IF q.failed THEN ErrorResponse(500, 1)
               ELSE LET r == getTopComments(q.rows, req.limit, req.cursor, DefaultSort)
                    IN [status |-> 200, data |-> r.comments,
                        next_cursor |-> r.nextCursor, has_more |-> r.hasMore,
                        total_estimated |-> getCommentCountByVideoId(req.videoId),
                        queries |-> 2, fetched |-> q.rows]

RECURSIVE getRepliesByCommentIds(_)
\* One SELECT * FROM replies_by_comment_time WHERE comment_id = ? for each
\* id, each partition read in its clustering order (created_at DESC, id
\* DESC), the results pushed onto one array in the order of the ids.
getRepliesByCommentIds(commentIds) ==
    IF commentIds = <<>> THEN <<>>
    ELSE OrderDesc({r \in replies_by_comment_time : r.comment_id = Head(commentIds)})
         \o getRepliesByCommentIds(Tail(commentIds))

NestedRequest(videoId, limit, cursor, repliesLimit) ==
    [videoId |-> videoId, limit |-> limit, cursor |-> cursor,
     replies_limit |-> repliesLimit]

\* getComments, the branch type === 'nested'
getCommentsNested(req) ==
    LET parsed == IF req.cursor # NoToken THEN decodeCursor(req.cursor)
                  ELSE [error |-> "", createdAt |-> UndefinedDate, id |-> Undefined]
    IN IF parsed.error # "" THEN ErrorResponse(400, 0)
       ELSE LET q == getCommentsByVideoIdWithCursor(
                         req.videoId, dbLimit(req.limit), parsed.createdAt, parsed.id)
            IN IF q.failed THEN ErrorResponse(500, 1)
               ELSE LET commentIds == [i \in 1..Len(q.rows) |-> q.rows[i].id]
                        replyRows == getRepliesByCommentIds(commentIds)
                        r == getCommentsWithReplies(q.rows, replyRows, req.limit,
                                                    req.replies_limit, req.cursor,
                                                    DefaultSort)
                    IN [status |-> 200, data |-> r.comments,
                        next_cursor |-> r.nextCursor, has_more |-> r.hasMore,
                        total_estimated |-> getCommentCountByVideoId(req.videoId),
                        queries |-> 2 + Len(commentIds), fetched |-> q.rows]

\* getRepliesWithCursor of utils/ranking.ts, imported by the controller as
\* getRepliesWithCursorUtil: the replies keep the order of the index.
getRepliesWithCursorUtil(rows, limit, lastCursor) ==
    LET hasMore == Len(rows) > limit
        chronologicalSlice == Take(rows, limit)
    IN [replies |-> [i \in 1..Len(chronologicalSlice) |->
                        RankedReply(chronologicalSlice[i])],
        nextCursor |-> IF hasMore THEN generateNextCursor(Take(rows, limit))
                       ELSE NoToken,
        hasMore |-> hasMore]

\* controllers/commentsController.ts, getReplies
getReplies(req) ==
    LET parsed == IF req.cursor # NoToken THEN decodeCursor(req.cursor)
                  ELSE [error |-> "", createdAt |-> UndefinedDate, id |-> Undefined]
    IN IF parsed.error # "" THEN ErrorResponse(400, 0)
       ELSE LET q == getRepliesWithCursor(
                         req.commentId, dbLimit(req.limit), parsed.createdAt, parsed.id)
            IN IF q.failed THEN ErrorResponse(500, 1)
               ELSE LET r == getRepliesWithCursorUtil(q.rows, req.limit, req.cursor)
                    IN [status |-> 200, data |-> r.replies,
                        next_cursor |-> r.nextCursor, has_more |-> r.hasMore,
                        total_estimated |-> getReplyCountByCommentId(req.commentId),
                        queries |-> 2, fetched |-> q.rows]

----------------------------------------------------------------------------
(* A client walking the pages of one video: first page without cursor, then *)
(* each next_cursor in turn until has_more is false.                        *)

Request(videoId, limit, cursor, sort) ==
    [videoId |-> videoId, limit |-> limit, cursor |-> cursor, sort |-> sort]

WalkStatus(resp) ==
    IF resp.status # 200 THEN "failed"
    ELSE IF ~resp.has_more THEN "done"
    ELSE IF resp.next_cursor = NoToken THEN "stuck"
    ELSE "walking"

WalkNext ==
    /\ walk.status = "walking"
    /\ LET req == Request(walk.videoId, walk.limit, walk.cursor, walk.sort)
           resp == getComments(req)
       IN walk' = [walk EXCEPT !.pages = Append(@, [req |-> req, resp |-> resp]),
                               !.cursor = resp.next_cursor,
                               !.status = WalkStatus(resp)]
    /\ UNCHANGED <<tables, now, last, calls, codec, client>>

CommentRow(id, videoId, createdAt, likes, dislikes, replyCount) ==
    [id |-> id, video_id |-> videoId, created_at |-> createdAt,
     likes |-> likes, dislikes |-> dislikes, reply_count |-> replyCount]

ReplyRequest(commentId, limit, cursor) ==
    [commentId |-> commentId, limit |-> limit, cursor |-> cursor]

ReplyRow(id, commentId, createdAt, likes, dislikes) ==
    [id |-> id, comment_id |-> commentId, created_at |-> createdAt,
     likes |-> likes, dislikes |-> dislikes]

NoLast == [handler |-> "none", req |-> Request("v1", 0, NoToken, "ranked"),
           resp |-> ErrorResponse(0, 0)]
NoOut == [error |-> "pending", createdAt |-> InvalidDate, id |-> Undefined]
NoCodec == [stage |-> "idle", origin |-> "none", createdAt |-> 0, id |-> Undefined,
            token |-> NoToken, out |-> NoOut]

\* The stores a walk starts from: n comments of v1 with ids 1..n created at
\* any times (ties included), at most one of them liked once, and one
\* comment of v2; the index holds a copy of every comment.
WalkStore(n, t, liked) ==
    {CommentRow(i, "v1", t[i], IF i = liked THEN 1 ELSE 0, 0, 0) : i \in 1..n}
    \cup {CommentRow(MaxId + 1, "v2", 1, 0, 0, 0)}

NewWalk(videoId, limit, sort, index) ==
    [videoId |-> videoId, limit |-> limit, sort |-> sort, cursor |-> NoToken,
     pages |-> <<>>, status |-> "walking",
     start |-> {r \in index : r.video_id = videoId}]

InitWalk ==
    /\ \E n \in 0..MaxId : \E t \in [1..n -> Times] : \E liked \in 0..n :
         /\ comments = WalkStore(n, t, liked)
         /\ comments_by_video_time = WalkStore(n, t, liked)
         /\ \E limit \in 0..MaxLimit : \E sort \in Sorts :
              walk = NewWalk("v1", limit, sort, WalkStore(n, t, liked))
    /\ replies = {}
    /\ replies_by_comment_time = {}
    /\ now = MaxTime
    /\ last = NoLast
    /\ calls = <<>>
    /\ codec = NoCodec
    /\ client = Ready

NextWalk == WalkNext

SpecWalk == InitWalk /\ [][NextWalk]_vars

----------------------------------------------------------------------------
(* Properties of the walk *)

Key(r) == [created_at |-> r.created_at, id |-> r.id]

StrictlyDescending(seq) ==
    \A i \in 1..Len(seq) : \A j \in 1..Len(seq) : i < j => KeyLess(seq[j], seq[i])

RECURSIVE Concat(_)
Concat(seqs) == IF seqs = <<>> THEN <<>> ELSE Head(seqs) \o Concat(Tail(seqs))

Items(seq) == {seq[i] : i \in 1..Len(seq)}

PageKeys(k) ==
    LET data == walk.pages[k].resp.data IN [i \in 1..Len(data) |-> Key(data[i])]

\* The chronological slice of page k, recovered from the items the client
\* received: the page's keys in store order.
ChronoKeys(k) == OrderDesc(Items(PageKeys(k)))

Visited == Concat([k \in 1..Len(walk.pages) |-> ChronoKeys(k)])

IndexOfVideo(videoId) == {r \in comments_by_video_time : r.video_id = videoId}

Unchanged == IndexOfVideo(walk.videoId) = walk.start

\* C1: over a parent whose N entries do not change during the walk, with any
\* page size P >= 1, the finished walk has visited every entry exactly once
\* and the concatenated chronological slices are strictly descending by
\* (createdAt, id).
C1_WalkVisitsEachOnce ==
    (walk.status = "done" /\ walk.limit >= 1 /\ Unchanged) =>
        /\ StrictlyDescending(Visited)
        /\ Items(Visited) = {Key(r) : r \in walk.start}
        /\ Len(Visited) = Cardinality(walk.start)
        /\ \A k \in 1..Len(walk.pages) :
             Len(walk.pages[k].resp.data) = Len(ChronoKeys(k))

\* A finished walk of three pages of two over entries with equal timestamps.
C1_Witness ==
    /\ walk.status = "done" /\ walk.limit = 2 /\ Len(walk.pages) = 3
    /\ Unchanged
    /\ \E a \in walk.start : \E b \in walk.start :
         a.id # b.id /\ a.created_at = b.created_at

\* C3: the next_cursor of a page decodes to the (createdAt, id) of the last
\* of the first `limit` rows in store order, never to the over-fetched row,
\* and getTopComments yields it whatever the display order.
C3_CursorFromChronologicalSlice ==
    \A k \in 1..Len(walk.pages) :
        LET p == walk.pages[k]
            rows == p.resp.fetched
            lim == p.req.limit
        IN p.resp.status = 200 =>
            /\ \A s \in Sorts :
                 getTopComments(rows, lim, p.req.cursor, s).nextCursor
                     = p.resp.next_cursor
            /\ p.resp.next_cursor # NoToken =>
                 /\ lim >= 1 /\ Len(rows) = lim + 1
                 /\ decodeCursor(p.resp.next_cursor) =
                      [error |-> "", createdAt |-> rows[lim].created_at,
                       id |-> rows[lim].id]
                 /\ Key(rows[lim]) # Key(rows[lim + 1])

\* A ranked page whose cursor row is not the item displayed last.
C3_Witness ==
    \E k \in 1..Len(walk.pages) :
        LET p == walk.pages[k] IN
        /\ p.resp.next_cursor # NoToken
        /\ Len(p.resp.data) >= 2
        /\ Key(p.resp.data[Len(p.resp.data)]) # Key(p.resp.fetched[p.req.limit])

Scenario5By2 ==
    walk.status = "done" /\ Unchanged /\ Cardinality(walk.start) = 5 /\ walk.limit = 2

ScenarioShape ==
    /\ Len(walk.pages) = 3
    /\ [k \in 1..3 |-> Len(walk.pages[k].resp.data)] = <<2, 2, 1>>
    /\ [k \in 1..3 |-> walk.pages[k].resp.has_more] = <<TRUE, TRUE, FALSE>>

C8_ChronologicalKeepsStoreOrder ==
    \A k \in 1..Len(walk.pages) :
        (walk.pages[k].req.sort = "chronological" /\ walk.pages[k].resp.status = 200)
            => StrictlyDescending(walk.pages[k].resp.data)

Count(x, seq) == Cardinality({i \in 1..Len(seq) : seq[i] = x})

IsPermutation(s, t) ==
    /\ Len(s) = Len(t)
    /\ \A x \in Items(s) \cup Items(t) : Count(x, s) = Count(x, t)

\* C9: over the same rows, cursor and limit, the items of the ranked page are
\* a permutation of the items of the chronological page.
C9_RankedIsPermutation ==
    \A k \in 1..Len(walk.pages) :
        LET p == walk.pages[k] IN
        p.resp.status = 200 =>
            LET ranked == getTopComments(p.resp.fetched, p.req.limit,
                                         p.req.cursor, "ranked").comments
                chrono == getTopComments(p.resp.fetched, p.req.limit,
                                         p.req.cursor, "chronological").comments
            IN /\ IsPermutation(ranked, chrono)
               /\ p.resp.data \in {ranked, chrono}

\* A page whose ranked order differs from its chronological order.
C9_Witness ==
    \E k \in 1..Len(walk.pages) :
        LET p == walk.pages[k] IN
        /\ p.resp.status = 200
        /\ getTopComments(p.resp.fetched, p.req.limit, p.req.cursor, "ranked").comments
             # getTopComments(p.resp.fetched, p.req.limit, p.req.cursor,
                              "chronological").comments

----------------------------------------------------------------------------
(* The cursor codec on its own: a pair is encoded and the token decoded, or *)
(* a token received from a client is decoded.                               *)

CodecDates == {0, 1, 999, 1000, 1001, 1999, 2000, CodecMaxTime}

\* Tokens a client can send: every shape JSON.parse can make of the decoded
\* bytes, the object with each member present, missing or, for createdAt,
\* no date.
ClientTokens ==
    {[kind |-> k, createdAt |-> Absent, id |-> Undefined] :
        k \in {"garbage", "null", "primitive"}}
    \cup {[kind |-> "object", createdAt |-> c, id |-> i] :
            c \in {Absent, NotADate} \cup {toISOString(d) : d \in CodecDates},
            i \in {Undefined} \cup Ids}

\* A token that is no cursor: not decodable, no JSON object, or an object
\* without its createdAt or its id.
Malformed(token) ==
    \/ token.kind # "object"
    \/ token.createdAt = Absent
    \/ token.id = Undefined

InitCodec ==
    /\ codec \in
         {[stage |-> "input", origin |-> "pair", createdAt |-> d, id |-> i,
           token |-> NoToken, out |-> NoOut] : d \in CodecDates, i \in Ids}
         \cup {[stage |-> "encoded", origin |-> "client", createdAt |-> 0,
                id |-> Undefined, token |-> t, out |-> NoOut] :
                 t \in ClientTokens}
    /\ comments = {}
    /\ comments_by_video_time = {}
    /\ replies = {}
    /\ replies_by_comment_time = {}
    /\ now = 0
    /\ walk = NewWalk("v1", 0, "ranked", {})
    /\ last = NoLast
    /\ calls = <<>>
    /\ client = Ready

Encode ==
    /\ codec.stage = "input"
    /\ codec' = [codec EXCEPT !.stage = "encoded",
                              !.token = encodeCursor(codec.createdAt, codec.id)]
    /\ UNCHANGED <<tables, now, walk, last, calls, client>>

Decode ==
    /\ codec.stage = "encoded"
    /\ codec' = [codec EXCEPT !.stage = "decoded", !.out = decodeCursor(codec.token)]
    /\ UNCHANGED <<tables, now, walk, last, calls, client>>

NextCodec == Encode \/ Decode

SpecCodec == InitCodec /\ [][NextCodec]_vars

\* C5: decodeCursor(encodeCursor(createdAt, id)) returns the same createdAt
\* and the same id, for every timestamp and id.
C5_RoundTrip ==
    (codec.stage = "decoded" /\ codec.origin = "pair") =>
        codec.out = [error |-> "", createdAt |-> codec.createdAt, id |-> codec.id]

\* A pair with a millisecond part and a seconds part has made the round trip.
C5_Witness ==
    /\ codec.stage = "decoded" /\ codec.origin = "pair"
    /\ codec.createdAt = 1999

\* C6: decodeCursor fails with 'Invalid cursor format' for every token that
\* is malformed, not decodable or lacks createdAt or id, and returns no pair
\* for it.
C6_MalformedRejected ==
    (codec.stage = "decoded" /\ Malformed(codec.token)) =>
        codec.out.error = InvalidCursorFormat

----------------------------------------------------------------------------
(* Listing requests that carry any token a client can send. *)

MaxReplies == 2

\* m replies of comment 1, created at the times of t, ids MaxId+2 and up.
ReplyStore(m, t) == {ReplyRow(MaxId + 1 + j, 1, t[j], 0, 0) : j \in 1..m}

\* No cursor, or any token shape with the dates of the stored rows.
RequestTokens ==
    {NoToken}
    \cup {[kind |-> k, createdAt |-> Absent, id |-> Undefined] :
            k \in {"garbage", "null", "primitive"}}
    \cup {[kind |-> "object", createdAt |-> c, id |-> i] :
            c \in {Absent, NotADate} \cup {toISOString(d) : d \in Times},
            i \in {Undefined} \cup Ids}

InitListing ==
    /\ \E n \in 0..2 : \E t \in [1..n -> Times] :
         /\ comments = WalkStore(n, t, 0)
         /\ comments_by_video_time = WalkStore(n, t, 0)
    /\ \E m \in 0..MaxReplies : \E t \in [1..m -> Times] :
         /\ replies = ReplyStore(m, t)
         /\ replies_by_comment_time = ReplyStore(m, t)
    /\ now = MaxTime
    /\ walk = NewWalk("v1", 0, "ranked", {})
    /\ last = NoLast
    /\ calls = <<>>
    /\ codec = NoCodec
    /\ client = Ready

ListComments ==
    /\ last.handler = "none"
    /\ \E videoId \in Videos : \E limit \in 0..MaxLimit :
       \E cursor \in RequestTokens : \E sort \in Sorts :
         LET req == Request(videoId, limit, cursor, sort)
         IN last' = [handler |-> "getComments", req |-> req, resp |-> getComments(req)]
    /\ UNCHANGED <<tables, now, walk, calls, codec, client>>

ListReplies ==
    /\ last.handler = "none"
    /\ \E commentId \in 1..2 : \E limit \in 0..MaxLimit :
       \E cursor \in RequestTokens :
         LET req == ReplyRequest(commentId, limit, cursor)
         IN last' = [handler |-> "getReplies", req |-> req, resp |-> getReplies(req)]
    /\ UNCHANGED <<tables, now, walk, calls, codec, client>>

NextListing == ListComments \/ ListReplies

SpecListing == InitListing /\ [][NextListing]_vars

\* C7: a listing request (comments or replies) whose cursor is malformed,
\* undecodable or lacks createdAt or id is rejected as a client error, issues
\* no store query and returns no page of data.
C7_InvalidCursorRejected ==
    (last.handler # "none" /\ last.req.cursor # NoToken /\ Malformed(last.req.cursor)) =>
        /\ last.resp.status = 400
        /\ last.resp.queries = 0
        /\ last.resp.data = <<>>

----------------------------------------------------------------------------
(* Store writes: services/commentsService.ts.  A statement is one store     *)
(* call; the store applies the two statements of a dual write one by one,   *)
(* in either order.  UPDATE is an upsert: on a missing row it creates the   *)
(* row with the key and the assigned column, every other column null.       *)

Null == -100
NullVideo == "null"

CounterFields == {"likes", "dislikes", "reply_count"}

\* The primary key of a row of each table.
KeyOf(table, r) ==
    IF table = "comments" \/ table = "replies" THEN <<r.id>>
    ELSE IF table = "comments_by_video_time" THEN <<r.video_id, r.created_at, r.id>>
    ELSE <<r.comment_id, r.created_at, r.id>>

\* INSERT INTO <table> ...: the row replaces any row with the same key.
InsertRow(tbl, table, row) ==
    {r \in tbl : KeyOf(table, r) # KeyOf(table, row)} \cup {row}

\* Mutant: an UPDATE that adds one to the stored counter (SET field = field
\* + 1) instead of overwriting it with the value the caller computed.
UpdateRow_InStore(tbl, table, blank, field, value) ==
    IF \E r \in tbl : KeyOf(table, r) = KeyOf(table, blank)
    THEN {IF KeyOf(table, r) = KeyOf(table, blank)
          THEN [r EXCEPT ![field] = IF @ = Null THEN value ELSE @ + 1]
          ELSE r : r \in tbl}
    ELSE tbl \cup {[blank EXCEPT ![field] = value]}

\* Mutant: an UPDATE that writes the whole row, the other counters reset.
UpdateRow_WholeRow(tbl, table, blank, field, value) ==
    IF \E r \in tbl : KeyOf(table, r) = KeyOf(table, blank)
    THEN {IF KeyOf(table, r) = KeyOf(table, blank)
          THEN [f \in DOMAIN r |->
                   IF f = field THEN value
                   ELSE IF f \in CounterFields THEN 0 ELSE r[f]]
          ELSE r : r \in tbl}
    ELSE tbl \cup {[blank EXCEPT ![field] = value]}

\* UPDATE <table> SET field = ? WHERE <key>: blank is the row of the key with
\* null columns.
UpdateRow(tbl, table, blank, field, value) ==
    IF \E r \in tbl : KeyOf(table, r) = KeyOf(table, blank)
    THEN {IF KeyOf(table, r) = KeyOf(table, blank) THEN [r EXCEPT ![field] = value]
          ELSE r : r \in tbl}
    ELSE tbl \cup {[blank EXCEPT ![field] = value]}

\* Mutant: a DELETE that removes nothing.
DeleteRow_None(tbl, table, key) == tbl

\* DELETE FROM <table> WHERE <key>
DeleteRow(tbl, table, key) == {r \in tbl : KeyOf(table, r) # KeyOf(table, key)}

\* Every column of a mapped row is read with typeof x === 'object' ?
\* x.toNumber() : x, which throws on a null column.
HasNullCounter(row) == \E f \in (DOMAIN row) \cap CounterFields : row[f] = Null


----------------------------------------------------------------------------
(* Mutation coordinator: services/commentsService.ts.  Each caller runs one *)
(* service function at a time; a step is the code between two awaits.  pc   *)
(* names the await the call is suspended at, pending the statements of its  *)
(* dual write the store has not applied yet.                                *)

MaxCallers == 2
MaxOps == 3
MaxCount == 2
MaxAppends == 2

Callers == 1..MaxCallers

\* The comment a deleteComment call has read, before any is read.
NoTarget == [id |-> Undefined, video_id |-> NullVideo, created_at |-> 0]

IdleCall ==
    [op |-> "none", pc |-> "idle", status |-> "none", entity |-> "none",
     wkind |-> "none", id |-> Undefined, video_id |-> NullVideo,
     comment_id |-> Undefined, created_at |-> 0, field |-> "none", delta |-> 0,
     value |-> 0, pending |-> {}, n |-> 0, error |-> "", failed |-> FALSE,
     target |-> NoTarget, todo |-> <<>>]

RECURSIVE SumOps(_)
SumOps(S) ==
    IF S = {} THEN 0
    ELSE LET c == CHOOSE x \in S : TRUE IN calls[c].n + SumOps(S \ {c})

\* A caller may issue a request once its previous one has returned and its
\* statements have been applied; MaxOps requests are issued in all.
Free(c) ==
    /\ calls[c].pc \in {"idle", "done"}
    /\ calls[c].pending = {}
    /\ SumOps(Callers) < MaxOps

Begin(c, op) == [IdleCall EXCEPT !.op = op, !.status = "running", !.n = calls[c].n + 1]

\* The call returns to its caller: resolved ("ok") or rejected ("error").
Return(call, status) == [call EXCEPT !.pc = "done", !.status = status]

\* The messages of the errors a service function rejects with.
NotFound == "not found"
TypeError == "TypeError"
StoreError == "store call failed"

\* The call rejects with an error of the given message.
Throw(call, error) == [Return(call, "error") EXCEPT !.error = error]

\* What a lookup throws: `<Entity> with id ... not found` when the SELECT
\* has no row, the TypeError of null.toNumber() otherwise.
LookupError(rows) == IF rows = {} THEN NotFound ELSE TypeError

\* Entry of the eight like/dislike functions: the SELECT of the counter is
\* issued.
StartCounter(c, op, entity, field, delta, id) ==
    /\ Free(c)
    /\ calls' = [calls EXCEPT ![c] =
                    [Begin(c, op) EXCEPT !.pc = "select", !.entity = entity,
                                         !.field = field, !.delta = delta, !.id = id]]
    /\ UNCHANGED <<tables, now, walk, last, codec, client>>

\* The ids a request can name: those of the stored rows and one id that no
\* row has.
MissingId == MaxId + MaxReplies + 2
CommentTargets == {r.id : r \in comments \cup comments_by_video_time} \cup {MissingId}
ReplyTargets == {r.id : r \in replies \cup replies_by_comment_time} \cup {MissingId}

likeIncrementComment ==
    \E c \in Callers : \E id \in CommentTargets :
        StartCounter(c, "likeIncrementComment", "comment", "likes", 1, id)

likeDecrementComment ==
    \E c \in Callers : \E id \in CommentTargets :
        StartCounter(c, "likeDecrementComment", "comment", "likes", -1, id)

dislikeIncrementComment ==
    \E c \in Callers : \E id \in CommentTargets :
        StartCounter(c, "dislikeIncrementComment", "comment", "dislikes", 1, id)

dislikeDecrementComment ==
    \E c \in Callers : \E id \in CommentTargets :
        StartCounter(c, "dislikeDecrementComment", "comment", "dislikes", -1, id)

likeIncrementReply ==
    \E c \in Callers : \E id \in ReplyTargets :
        StartCounter(c, "likeIncrementReply", "reply", "likes", 1, id)

likeDecrementReply ==
    \E c \in Callers : \E id \in ReplyTargets :
        StartCounter(c, "likeDecrementReply", "reply", "likes", -1, id)

dislikeIncrementReply ==
    \E c \in Callers : \E id \in ReplyTargets :
        StartCounter(c, "dislikeIncrementReply", "reply", "dislikes", 1, id)

dislikeDecrementReply ==
    \E c \in Callers : \E id \in ReplyTargets :
        StartCounter(c, "dislikeDecrementReply", "reply", "dislikes", -1, id)

PrimaryOf(entity) == IF entity = "comment" THEN comments ELSE replies

\* Mutant: a decrement that writes current - 1 whatever the current value.
WritesCounter_Unguarded(delta, current) == TRUE

\* if (likesCount > 0) { likesCount = likesCount - 1; await update... }: an
\* increment always writes, a decrement only above zero.
WritesCounter(delta, current) == delta = 1 \/ current > 0

\* SELECT <field> FROM <table> WHERE id = ? has answered: no row throws
\* 'not found', a null column throws on .toNumber(), a decrement at zero
\* returns without writing; otherwise the new value is computed and
\* update<Entity>InBothTables is entered, which issues its own SELECT *.
\* value is the function's local count.
Select(c) ==
    LET call == calls[c]
        rows == {r \in PrimaryOf(call.entity) : r.id = call.id}
        current == (CHOOSE r \in rows : TRUE)[call.field]
    IN /\ call.pc = "select"
       /\ (rows # {} /\ current # Null /\ call.delta = 1) => current < MaxCount
       /\ calls' = [calls EXCEPT ![c] =
            IF rows = {} \/ current = Null THEN Throw(call, LookupError(rows))
            ELSE IF ~WritesCounter(call.delta, current)
            THEN Return([call EXCEPT !.value = current], "ok")
            ELSE [call EXCEPT !.pc = "getById", !.value = current + call.delta]]
       /\ UNCHANGED <<tables, now, walk, last, codec, client>>


\* updateCommentInBothTables awaits Promise.all of its two UPDATEs;
\* updateReplyInBothTables issues them without await and returns at once.
ReturnsBeforeWrites(entity) == entity = "reply"

\* update<Entity>InBothTables after its get<Entity>ById has answered: no row
\* throws 'not found', a null counter column throws in the row mapping;
\* otherwise both UPDATEs are issued with the key columns just read.
UpdateInBothTables(c) ==
    LET call == calls[c]
        rows == {r \in PrimaryOf(call.entity) : r.id = call.id}
        row == CHOOSE r \in rows : TRUE
        issued == [call EXCEPT !.wkind = "update", !.created_at = row.created_at,
                               !.pending = {"primary", "index"}]
    IN /\ call.pc = "getById"
       /\ calls' = [calls EXCEPT ![c] =
            IF rows = {} \/ HasNullCounter(row) THEN Throw(call, LookupError(rows))
            ELSE IF call.entity = "comment"
            THEN [issued EXCEPT !.pc = "writing", !.video_id = row.video_id]
            ELSE IF ReturnsBeforeWrites(call.entity)
            THEN Return([issued EXCEPT !.comment_id = row.comment_id], "ok")
            ELSE [issued EXCEPT !.pc = "writing", !.comment_id = row.comment_id]]
       /\ UNCHANGED <<tables, now, walk, last, codec, client>>

IdsInUse ==
    {r.id : r \in comments \cup comments_by_video_time \cup replies
                     \cup replies_by_comment_time}
    \cup {calls[c].id : c \in Callers}

\* createComment: id = uuidv4(), created_at = new Date(), then both INSERTs
\* are issued under one Promise.all.
createComment ==
    \E c \in Callers : \E videoId \in Videos : \E id \in Ids \ IdsInUse :
        /\ Free(c)
        /\ calls' = [calls EXCEPT ![c] =
              [Begin(c, "createComment") EXCEPT
                  !.pc = "inserting", !.entity = "comment", !.wkind = "insert",
                  !.id = id, !.video_id = videoId, !.created_at = now,
                  !.pending = {"primary", "index"}]]
        /\ UNCHANGED <<tables, now, walk, last, codec, client>>

\* The uuid of a new reply: one no reply has had.
NewReplyId(c) == MissingId + (c - 1) * MaxOps + calls[c].n + 1

\* createReply: as createComment, for a reply of commentId.
createReply ==
    \E c \in Callers : \E commentId \in CommentTargets : \E id \in {NewReplyId(c)} :
        /\ Free(c)
        /\ calls' = [calls EXCEPT ![c] =
              [Begin(c, "createReply") EXCEPT
                  !.pc = "inserting", !.entity = "reply", !.wkind = "insert",
                  !.id = id, !.comment_id = commentId, !.created_at = now,
                  !.pending = {"primary", "index"}]]
        /\ UNCHANGED <<tables, now, walk, last, codec, client>>

\* deleteReply: getReplyById is issued.
deleteReply ==
    \E c \in Callers : \E id \in ReplyTargets :
        /\ Free(c)
        /\ calls' = [calls EXCEPT ![c] =
              [Begin(c, "deleteReply") EXCEPT
                  !.pc = "getReplyById", !.entity = "reply", !.id = id,
                  !.target = [NoTarget EXCEPT !.id = id]]]
        /\ UNCHANGED <<tables, now, walk, last, codec, client>>

\* deleteReply after getReplyById has answered: both DELETEs are issued.
DeleteReplyLookup(c) ==
    LET call == calls[c]
        rows == {r \in replies : r.id = call.id}
        row == CHOOSE r \in rows : TRUE
    IN /\ call.pc = "getReplyById"
       /\ calls' = [calls EXCEPT ![c] =
            IF rows = {} \/ HasNullCounter(row) THEN Throw(call, LookupError(rows))
            ELSE [call EXCEPT !.pc = "deleting", !.wkind = "delete",
                              !.comment_id = row.comment_id,
                              !.created_at = row.created_at,
                              !.pending = {"primary", "index"}]]
       /\ UNCHANGED <<tables, now, walk, last, codec, client>>

\* deleteComment: getCommentById is issued.
deleteComment ==
    \E c \in Callers : \E id \in CommentTargets :
        /\ Free(c)
        /\ calls' = [calls EXCEPT ![c] =
              [Begin(c, "deleteComment") EXCEPT
                  !.pc = "getCommentById", !.entity = "comment", !.id = id]]
        /\ UNCHANGED <<tables, now, walk, last, codec, client>>

\* deleteComment after getCommentById has answered: 'not found' is thrown,
\* or getRepliesByCommentIds([commentId]) is issued.
DeleteCommentLookup(c) ==
    LET call == calls[c]
        rows == {r \in comments : r.id = call.id}
        row == CHOOSE r \in rows : TRUE
    IN /\ call.pc = "getCommentById"
       /\ calls' = [calls EXCEPT ![c] =
            IF rows = {} \/ HasNullCounter(row) THEN Throw(call, LookupError(rows))
            ELSE [call EXCEPT !.pc = "getReplies",
                              !.target = [id |-> row.id, video_id |-> row.video_id,
                                          created_at |-> row.created_at]]]
       /\ UNCHANGED <<tables, now, walk, last, codec, client>>

\* The next statement of deleteComment: the DELETE of the next reply from
\* replies, awaited alone, or, the replies done, both DELETEs of the comment
\* under one Promise.all.
NextDelete(call) ==
    IF call.todo = <<>>
    THEN [call EXCEPT !.pc = "deletingComment", !.entity = "comment",
                      !.wkind = "delete", !.id = call.target.id,
                      !.video_id = call.target.video_id,
                      !.created_at = call.target.created_at,
                      !.pending = {"primary", "index"}]
    ELSE [call EXCEPT !.pc = "deletingReply", !.entity = "reply",
                      !.wkind = "delete", !.id = Head(call.todo).id,
                      !.comment_id = Head(call.todo).comment_id,
                      !.created_at = Head(call.todo).created_at,
                      !.pending = {"primary"}, !.todo = Tail(call.todo)]

\* Mutant: a deleteComment that finds no reply to delete.
DeleteCommentReplies_None(c) ==
    /\ calls[c].pc = "getReplies"
    /\ calls' = [calls EXCEPT ![c] = NextDelete(calls[c])]
    /\ UNCHANGED <<tables, now, walk, last, codec, client>>

\* deleteComment after getRepliesByCommentIds has answered with the rows of
\* replies_by_comment_time of the comment, in clustering order: a null
\* counter column throws in the row mapping, otherwise the first DELETE is
\* issued.
DeleteCommentReplies(c) ==
    LET call == calls[c]
        found == OrderDesc({r \in replies_by_comment_time : r.comment_id = call.id})
    IN /\ call.pc = "getReplies"
       /\ calls' = [calls EXCEPT ![c] =
            IF \E i \in 1..Len(found) : HasNullCounter(found[i])
            THEN Throw(call, TypeError)
            ELSE NextDelete([call EXCEPT !.todo =
                    [i \in 1..Len(found) |->
                        [id |-> found[i].id, comment_id |-> found[i].comment_id,
                         created_at |-> found[i].created_at]]])]
       /\ UNCHANGED <<tables, now, walk, last, codec, client>>

\* The row a call's statement carries: the inserted row, the key of a
\* DELETE, or the key of an UPDATE with its other columns null.
CallCommentRow(call, fill) ==
    CommentRow(call.id, call.video_id, call.created_at, fill, fill, fill)

CallReplyRow(call, fill) ==
    ReplyRow(call.id, call.comment_id, call.created_at, fill, fill)

PrimaryBlankComment(call) == CommentRow(call.id, NullVideo, Null, Null, Null, Null)
PrimaryBlankReply(call) == ReplyRow(call.id, Null, Null, Null, Null)

\* One statement of kind wkind applied to a table.
Apply(tbl, table, call, row, blank) ==
    IF call.wkind = "insert" THEN InsertRow(tbl, table, row)
    ELSE IF call.wkind = "delete" THEN DeleteRow(tbl, table, row)
    ELSE UpdateRow(tbl, table, blank, call.field, call.value)

\* The store rejects a statement whose key has a null column.
NullKey(call) ==
    \/ call.created_at = Null
    \/ call.entity = "comment" /\ call.video_id = NullVideo
    \/ call.entity = "reply" /\ call.comment_id = Null

\* Mutant: createReply and deleteReply return once their rows are written,
\* the reply count of the parent left alone.
AfterWrites_NoCount(call) ==
    IF call.pc = "done" THEN call
    ELSE IF call.op = "deleteComment" /\ call.pc = "deletingReply"
    THEN [call EXCEPT !.pc = "deletingReplyIndex", !.pending = {"index"}]
    ELSE IF call.op = "deleteComment" /\ call.pc = "deletingReplyIndex"
    THEN NextDelete(call)
    ELSE Return(call, "ok")

\* What the call does once the store has answered the statements it awaits:
\* the function returns, createReply / deleteReply go on to
\* increaseReplyCount / decreaseReplyCount of the parent comment and issue
\* its SELECT, deleteComment goes on to its next DELETE.
AfterWrites(call) ==
    IF call.pc = "done" THEN call
    ELSE IF call.op = "createReply" /\ call.pc = "inserting"
    THEN [call EXCEPT !.pc = "select", !.entity = "comment", !.wkind = "none",
                      !.field = "reply_count", !.delta = 1, !.id = call.comment_id]
    ELSE IF call.op = "deleteReply" /\ call.pc = "deleting"
    THEN [call EXCEPT !.pc = "select", !.entity = "comment", !.wkind = "none",
                      !.field = "reply_count", !.delta = -1, !.id = call.comment_id]
    ELSE IF call.op = "deleteComment" /\ call.pc = "deletingReply"
    THEN [call EXCEPT !.pc = "deletingReplyIndex", !.pending = {"index"}]
    ELSE IF call.op = "deleteComment" /\ call.pc = "deletingReplyIndex"
    THEN NextDelete(call)
    ELSE Return(call, "ok")

\* The store applies one pending statement of a dual write.
ApplyWrite(c, w) ==
    LET call == calls[c]
        left == call.pending \ {w}
        onComment == call.entity = "comment"
        fill == IF call.wkind = "insert" THEN 0 ELSE Null
    IN /\ w \in call.pending
       /\ comments' =
            IF onComment /\ w = "primary"
            THEN Apply(comments, "comments", call, CallCommentRow(call, fill),
                       PrimaryBlankComment(call))
            ELSE comments
       /\ comments_by_video_time' =
            IF onComment /\ w = "index" /\ ~NullKey(call)
            THEN Apply(comments_by_video_time, "comments_by_video_time", call,
                       CallCommentRow(call, fill), CallCommentRow(call, Null))
            ELSE comments_by_video_time
       /\ replies' =
            IF ~onComment /\ w = "primary"
            THEN Apply(replies, "replies", call, CallReplyRow(call, fill),
                       PrimaryBlankReply(call))
            ELSE replies
       /\ replies_by_comment_time' =
            IF ~onComment /\ w = "index" /\ ~NullKey(call)
            THEN Apply(replies_by_comment_time, "replies_by_comment_time", call,
                       CallReplyRow(call, fill), CallReplyRow(call, Null))
            ELSE replies_by_comment_time
       /\ calls' = [calls EXCEPT ![c] =
            IF left = {} THEN AfterWrites([call EXCEPT !.pending = left])
            ELSE [call EXCEPT !.pending = left]]
       /\ UNCHANGED <<now, walk, last, codec, client>>

\* The store fails one pending statement: its promise rejects.  A call that
\* awaits the statement rejects with the store's error, the other statement
\* of its Promise.all staying in flight; a call that has returned without
\* awaiting it learns nothing.
FailWrite(c, w) ==
    LET call == calls[c]
        rejected == [call EXCEPT !.pending = call.pending \ {w}, !.failed = TRUE]
    IN /\ w \in call.pending
       /\ calls' = [calls EXCEPT ![c] =
            IF call.pc = "done" THEN rejected ELSE Throw(rejected, StoreError)]
       /\ UNCHANGED <<tables, now, walk, last, codec, client>>

\* The response of the controller's handler of a returned call: every
\* handler answers success, or in its catch block 500 with the one message
\* of the handler, whatever the error caught.
HandlerResponse(call) ==
    IF call.status = "ok"
    THEN [status |-> IF call.op \in {"createComment", "createReply"} THEN 201 ELSE 200,
          success |-> TRUE, error |-> ""]
    ELSE [status |-> 500, success |-> FALSE, error |-> "Failed: " \o call.op]


----------------------------------------------------------------------------
(* Concurrent counter mutations on one comment and its replies. *)

IdleCalls == [c \in Callers |-> IdleCall]

InitMutations ==
    /\ \E likes \in 0..1 : \E m \in 0..1 :
         /\ comments = {CommentRow(1, "v1", 0, likes, 0, m)}
         /\ comments_by_video_time = {CommentRow(1, "v1", 0, likes, 0, m)}
         /\ replies = ReplyStore(m, [j \in 1..m |-> 0])
         /\ replies_by_comment_time = ReplyStore(m, [j \in 1..m |-> 0])
    /\ now = 1
    /\ walk = NewWalk("v1", 0, "ranked", {})
    /\ last = NoLast
    /\ calls = IdleCalls
    /\ codec = NoCodec
    /\ client = Ready

NextMutations ==
    \/ likeIncrementComment
    \/ likeDecrementComment
    \/ dislikeIncrementComment
    \/ dislikeDecrementComment
    \/ likeIncrementReply
    \/ likeDecrementReply
    \/ dislikeIncrementReply
    \/ dislikeDecrementReply
    \/ createReply
    \/ deleteReply
    \/ \E c \in Callers : Select(c)
    \/ \E c \in Callers : UpdateInBothTables(c)
    \/ \E c \in Callers : DeleteReplyLookup(c)
    \/ \E c \in Callers : \E w \in {"primary", "index"} : ApplyWrite(c, w)

SpecMutations == InitMutations /\ [][NextMutations]_vars

AllRows == comments \cup comments_by_video_time \cup replies \cup replies_by_comment_time

\* A decrement that has read its counter.
PastSelect(call) ==
    /\ call.delta = -1
    /\ call.pc \in {"getById", "writing", "done"}
    /\ call.status # "error"

\* A decrement that returned without issuing a write.
ReturnedUnwritten(call) ==
    /\ call.delta = -1
    /\ call.pc = "done"
    /\ call.status = "ok"
    /\ call.wkind = "none"

\* C10: whatever the interleaving of the counter operations of concurrent
\* callers, no likes, dislikes or replyCount of a primary or projection row
\* is ever negative; a decrement never computes a value below 0, and one
\* that finds its counter at 0 returns with 0 and issues no write.
C10_CountersNeverNegative ==
    /\ \A r \in AllRows : \A f \in (DOMAIN r) \cap CounterFields :
         r[f] = Null \/ r[f] >= 0
    /\ \A c \in Callers :
         /\ PastSelect(calls[c]) => calls[c].value >= 0
         /\ ReturnedUnwritten(calls[c]) =>
              calls[c].value = 0 /\ calls[c].pending = {}

\* Two callers decrement the likes of the same comment: one has written 0
\* to both tables, the other found 0 and returned without writing, and the
\* counter is 0 in the primary and the projection row.
C10_Witness ==
    \E c1, c2 \in Callers :
        /\ c1 # c2
        /\ calls[c1].op = "likeDecrementComment"
        /\ calls[c2].op = "likeDecrementComment"
        /\ calls[c1].id = calls[c2].id
        /\ calls[c1].pc = "done" /\ calls[c1].wkind = "update"
        /\ calls[c1].pending = {} /\ calls[c1].value = 0
        /\ ReturnedUnwritten(calls[c2])
        /\ \E r \in comments : r.id = calls[c1].id /\ r.likes = 0
        /\ \E r \in comments_by_video_time : r.id = calls[c1].id /\ r.likes = 0

----------------------------------------------------------------------------
(* A walk of one video while callers append comments between its pages.    *)

\* The comments stored before the walk have the even ids, so that the uuid
\* of a new comment can sort above, between and below those of stored ones
\* of the same millisecond.
StoredIds == {i \in Ids : i % 2 = 0}

AppendStore(S, t) == {CommentRow(i, "v1", t[i], 0, 0, 0) : i \in S}

LatestOf(S, t) == IF S = {} THEN 0 ELSE CHOOSE m \in Times : \E i \in S : t[i] = m /\ \A j \in S : t[j] <= m

InitAppend ==
    /\ \E S \in {StoredIds} : \E t \in [S -> Times] :
         /\ comments = AppendStore(S, t)
         /\ comments_by_video_time = AppendStore(S, t)
         /\ \E limit \in 1..MaxLimit :
              walk = NewWalk("v1", limit, DefaultSort, AppendStore(S, t))
         /\ now = LatestOf(S, t)
    /\ replies = {}
    /\ replies_by_comment_time = {}
    /\ last = NoLast
    /\ calls = IdleCalls
    /\ codec = NoCodec
    /\ client = Ready

\* The clock new Date() reads moves on.
Tick ==
    /\ now < MaxTime
    /\ now' = now + 1
    /\ UNCHANGED <<tables, walk, last, calls, codec, client>>

NextAppend ==
    \/ WalkNext
    \/ SumOps(Callers) < MaxAppends /\ createComment
    \/ \E c \in Callers : \E w \in {"primary", "index"} : ApplyWrite(c, w)
    \/ Tick

SpecAppend == InitAppend /\ [][NextAppend]_vars

\* C2: while comments are appended between the page requests of a walk, no
\* comment is returned on two pages (or twice on one), and the finished
\* walk has returned every comment the index held when the walk began.
C2_NoDuplicateNoSkip ==
    /\ \A k \in 1..Len(walk.pages) :
         Cardinality(Items(PageKeys(k))) = Len(walk.pages[k].resp.data)
    /\ \A j \in 1..Len(walk.pages) : \A k \in 1..Len(walk.pages) :
         j # k => Items(PageKeys(j)) \cap Items(PageKeys(k)) = {}
    /\ walk.status \in {"walking", "done"}
    /\ walk.status = "done" => {Key(r) : r \in walk.start} \subseteq Items(Visited)

\* A finished walk of several pages that returned, after its first page, a
\* comment appended during the walk in the millisecond of a comment that
\* was there from the start, while another appended comment was not
\* returned.
C2_Witness ==
    /\ walk.status = "done" /\ Len(walk.pages) >= 2
    /\ \E k \in 2..Len(walk.pages) : \E key \in Items(PageKeys(k)) :
         /\ key \notin {Key(r) : r \in walk.start}
         /\ \E r \in walk.start : r.created_at = key.created_at
    /\ \E r \in IndexOfVideo("v1") : Key(r) \notin Items(Visited)

----------------------------------------------------------------------------------------------------------------------------------------
(* Scoring of one comment and one reply of any age and engagement, as the  *)
(* listings return it.                                                      *)

MaxLikes == 5
MaxDislikes == 10
MaxReplyCount == 11
MaxReplyVotes == 1
ManyReplies == 1000

\* Ages in whole hours: just created, the five hours at which the recency
\* bonus steps down, and 30 days.
ScoreHours == {0, 1, 6, 24, 168, 672, 30 * 24}

\* The scored comment and reply were created 15 days before the epoch, so
\* that the clock of every age is a Date of the model.
ScoreEpoch == 0 - 15 * 24 * MsPerHour

\* The clock at an age of h hours and d milliseconds.
ClockAt(h, d) == (h - 15 * 24) * MsPerHour + d

ScoredReplyId == MaxId + 2

InitScore ==
    /\ \E likes \in 0..MaxLikes : \E dislikes \in 0..MaxDislikes :
       \E replyCount \in (0..MaxReplyCount) \cup {ManyReplies} :
         /\ comments = {CommentRow(1, "v1", ScoreEpoch, likes, dislikes, replyCount)}
         /\ comments_by_video_time =
              {CommentRow(1, "v1", ScoreEpoch, likes, dislikes, replyCount)}
    /\ \E likes \in 0..MaxReplyVotes : \E dislikes \in 0..MaxReplyVotes :
         /\ replies = {ReplyRow(ScoredReplyId, 1, ScoreEpoch, likes, dislikes)}
         /\ replies_by_comment_time =
              {ReplyRow(ScoredReplyId, 1, ScoreEpoch, likes, dislikes)}
    /\ \E h \in ScoreHours : \E d \in {-1, 0, 1} :
         /\ h = 0 => d >= 0
         /\ now = ClockAt(h, d)
    /\ walk = NewWalk("v1", 0, "ranked", {})
    /\ last = NoLast
    /\ calls = <<>>
    /\ codec = NoCodec
    /\ client = Ready

ScoreComments ==
    /\ last.handler = "none"
    /\ LET req == Request("v1", 1, NoToken, DefaultSort)
       IN last' = [handler |-> "getComments", req |-> req, resp |-> getComments(req)]
    /\ UNCHANGED <<tables, now, walk, calls, codec, client>>

ScoreReplies ==
    /\ last.handler = "none"
    /\ LET req == ReplyRequest(1, 1, NoToken)
       IN last' = [handler |-> "getReplies", req |-> req, resp |-> getReplies(req)]
    /\ UNCHANGED <<tables, now, walk, calls, codec, client>>

NextScore == ScoreComments \/ ScoreReplies

SpecScore == InitScore /\ [][NextScore]_vars

\* The items of the last response of a handler.
Scored(handler) ==
    IF last.handler = handler /\ last.resp.status = 200
    THEN Items(last.resp.data) ELSE {}

\* The age of a scored item is h hours and d milliseconds.
Aged(x, h, d) == x.created_at = ScoreEpoch /\ now = ClockAt(h, d)

\* The age of a scored item is more than lo and at most hi hours.
AgedWithin(x, lo, hi) ==
    \E h \in ScoreHours : \E d \in {-1, 0, 1} :
        /\ Aged(x, h, d)
        /\ h > lo \/ (h = lo /\ d > 0)
        /\ h < hi \/ (h = hi /\ d <= 0)

\* The recency bonus as the step function of the age.
StepBonus(x) ==
    IF AgedWithin(x, -1, 1) THEN 10
    ELSE IF AgedWithin(x, 1, 6) THEN 8
    ELSE IF AgedWithin(x, 6, 24) THEN 6
    ELSE IF AgedWithin(x, 24, 168) THEN 4
    ELSE IF AgedWithin(x, 168, 672) THEN 2
    ELSE 0

C19_NegativeGetsNoBonus ==
    \A c \in Scored("getComments") : c.likes < c.dislikes => c.score = 0

\* C20: the recency bonus is 10, 8, 6, 4, 2, 0 for an age of at most 1, 6,
\* 24, 168, 672 hours and beyond; an age of exactly 1, 6, 24, 168 or 672
\* hours gets the higher bonus.  Read off the items whose score is the
\* recency bonus alone: a reply, or a comment without replies, not liked
\* more than disliked.
C20_RecencyStep ==
    \A handler \in {"getComments", "getReplies"} : \A x \in Scored(handler) :
        LET bonusOnly == /\ x.likes <= x.dislikes
                         /\ handler = "getComments" => x.reply_count = 0
        IN bonusOnly =>
            /\ x.score = 2 * StepBonus(x)
            /\ Aged(x, 1, 0) => x.score = 2 * 10
            /\ Aged(x, 1, 1) => x.score = 2 * 8
            /\ Aged(x, 6, 0) => x.score = 2 * 8
            /\ Aged(x, 6, 1) => x.score = 2 * 6
            /\ Aged(x, 24, 0) => x.score = 2 * 6
            /\ Aged(x, 24, 1) => x.score = 2 * 4
            /\ Aged(x, 168, 0) => x.score = 2 * 4
            /\ Aged(x, 168, 1) => x.score = 2 * 2
            /\ Aged(x, 672, 0) => x.score = 2 * 2
            /\ Aged(x, 672, 1) => x.score = 0

\* A reply of exactly 672 hours scored 2.
C20_Witness ==
    \E x \in Scored("getReplies") :
        /\ Aged(x, 672, 0)
        /\ x.likes <= x.dislikes
        /\ x.score = 2 * 2

\* The part of a comment's score left when the net part and the recency
\* bonus are taken off, in half points.
ReplyPart(c) ==
    c.score - 2 * (IF c.likes > c.dislikes THEN c.likes - c.dislikes ELSE 0)
            - 2 * StepBonus(c)

\* C22: the reply bonus in a comment's score is min(replyCount * 0.5, 5)
\* (here doubled) and never above 5: 0 at replyCount 0, 5 at replyCount 10
\* and at replyCount 1000.
C22_ReplyBonusCapped ==
    \A c \in Scored("getComments") :
        /\ ReplyPart(c) >= 0 /\ ReplyPart(c) <= 2 * 5
        /\ c.reply_count <= 10 => ReplyPart(c) = c.reply_count
        /\ c.reply_count = 0 => ReplyPart(c) = 0
        /\ c.reply_count = 10 => ReplyPart(c) = 2 * 5
        /\ c.reply_count = 1000 => ReplyPart(c) = 2 * 5

\* A comment of 1000 replies scored with a reply bonus of 5.
C22_Witness ==
    \E c \in Scored("getComments") : c.reply_count = 1000 /\ ReplyPart(c) = 2 * 5

\* C28: the score of every reply is max(0, likes - dislikes) +
\* recencyBonus(age) (here doubled) and nothing more: no reply bonus.
C28_ReplyScore ==
    \A x \in Scored("getReplies") :
        x.score = 2 * (IF x.likes > x.dislikes THEN x.likes - x.dislikes ELSE 0)
                  + 2 * StepBonus(x)

\* A reply disliked more than liked, 6 hours old, scored 8.
C28_Witness ==
    \E x \in Scored("getReplies") :
        /\ x.likes < x.dislikes
        /\ Aged(x, 6, 0)
        /\ x.score = 2 * 8

----------------------------------------------------------------------------
(* Agreement of the primary tables and their projections *)

\* Every call has returned to its caller.
AllReturned == \A c \in Callers : calls[c].pc \in {"idle", "done"}

\* No statement of any call is still to be applied, and none has failed.
NothingInFlight ==
    \A c \in Callers : calls[c].pending = {} /\ ~calls[c].failed

\* Every row of the primary table has exactly one row of the same id in the
\* projection, equal to it in every column, and every projection row has a
\* primary row.
Mirrors(primary, projection) ==
    /\ \A r \in primary :
         /\ Cardinality({q \in projection : q.id = r.id}) = 1
         /\ r \in projection
    /\ \A q \in projection : \E r \in primary : r.id = q.id

\* C12 as stated: whenever no mutation is in flight and no store write has
\* failed, every comment (reply) row of the primary table has exactly one
\* time-index row with the same id, parent key, createdAt and field values,
\* and every time-index row has a primary row.
C12_ProjectionMirrorsPrimary ==
    (AllReturned /\ NothingInFlight) =>
        /\ Mirrors(comments, comments_by_video_time)
        /\ Mirrors(replies, replies_by_comment_time)

----------------------------------------------------------------------------
(* Mutations issued one after another: a request is issued when every call *)
(* has returned and the store has applied every statement issued so far;   *)
(* MaxSerial requests are issued in all.                                    *)

MaxSerial == 2

Settled ==
    /\ AllReturned
    /\ \A c \in Callers : calls[c].pending = {}
    /\ SumOps(Callers) < MaxSerial

InitSerial ==
    /\ \E likes \in 0..1 : \E count \in 0..MaxReplies : \E m \in 0..MaxReplies :
         /\ comments = {CommentRow(1, "v1", 0, likes, 0, count)}
         /\ comments_by_video_time = {CommentRow(1, "v1", 0, likes, 0, count)}
         /\ replies = ReplyStore(m, [j \in 1..m |-> 0])
         /\ replies_by_comment_time = ReplyStore(m, [j \in 1..m |-> 0])
    /\ now = 1
    /\ walk = NewWalk("v1", 0, "ranked", {})
    /\ last = NoLast
    /\ calls = IdleCalls
    /\ codec = NoCodec
    /\ client = Ready

NextSerial ==
    \/ Settled /\ createComment
    \/ Settled /\ createReply
    \/ Settled /\ deleteComment
    \/ Settled /\ deleteReply
    \/ Settled /\ likeIncrementComment
    \/ Settled /\ likeDecrementComment
    \/ Settled /\ dislikeIncrementComment
    \/ Settled /\ dislikeDecrementComment
    \/ Settled /\ likeIncrementReply
    \/ Settled /\ likeDecrementReply
    \/ Settled /\ dislikeIncrementReply
    \/ Settled /\ dislikeDecrementReply
    \/ \E c \in Callers : Select(c)
    \/ \E c \in Callers : UpdateInBothTables(c)
    \/ \E c \in Callers : DeleteReplyLookup(c)
    \/ \E c \in Callers : DeleteCommentLookup(c)
    \/ \E c \in Callers : DeleteCommentReplies(c)
    \/ \E c \in Callers : \E w \in {"primary", "index"} : ApplyWrite(c, w)

SpecSerial == InitSerial /\ [][NextSerial]_vars

\* The rows of the same id hold equal likes, dislikes and replyCount in the
\* primary table and in the projection.
CountersAgree(primary, projection) ==
    \A r \in primary : \A q \in projection :
        r.id = q.id => \A f \in (DOMAIN r) \cap CounterFields : r[f] = q[f]

\* C11 as stated: with the mutations issued one after another, each after
\* the previous one has returned, and no store failure, after every mutation
\* the projection row and the primary row of every comment and reply hold
\* equal likes, dislikes and replyCount.
C11_CountersAgreeAfterMutation ==
    AllReturned =>
        /\ CountersAgree(comments, comments_by_video_time)
        /\ CountersAgree(replies, replies_by_comment_time)

CounterOps ==
    {"likeIncrementComment", "likeDecrementComment", "dislikeIncrementComment",
     "dislikeDecrementComment", "likeIncrementReply", "likeDecrementReply",
     "dislikeIncrementReply", "dislikeDecrementReply"}

\* C13 as stated: when an increment or decrement on a comment or a reply
\* has returned successfully, its new value has already been written to the
\* primary row and to the projection row.
C13_WrittenBeforeReturn ==
    \A c \in Callers :
        (/\ calls[c].op \in CounterOps
         /\ calls[c].pc = "done" /\ calls[c].status = "ok"
         /\ calls[c].wkind = "update") => calls[c].pending = {}

\* The call of caller c returns successfully in this step.
ReturnsOk(c, op) ==
    /\ calls[c].op = op /\ calls[c].pc # "done"
    /\ calls'[c].pc = "done" /\ calls'[c].status = "ok"

NoRowOf(tbl, id) == \A r \in tbl : r.id # id

NoReplyOf(tbl, commentId) == \A r \in tbl : r.comment_id # commentId

\* C14: a successful deleteComment on an existing comment, run without
\* concurrent mutations, has removed every reply of the comment from replies
\* and from the by-comment index and the comment from comments and from the
\* by-video index when it returns, and no comment row is deleted while a
\* reply row of the comment is left.
C14_DeleteCommentCascade ==
    [][\A c \in Callers :
        /\ (/\ calls[c].op = "deleteComment"
            /\ comments' # comments \/ comments_by_video_time' # comments_by_video_time)
           => /\ NoReplyOf(replies, calls[c].target.id)
              /\ NoReplyOf(replies_by_comment_time, calls[c].target.id)
        /\ ReturnsOk(c, "deleteComment")
           => /\ NoReplyOf(replies', calls[c].target.id)
              /\ NoReplyOf(replies_by_comment_time', calls[c].target.id)
              /\ NoRowOf(comments', calls[c].target.id)
              /\ NoRowOf(comments_by_video_time', calls[c].target.id)]_vars

\* A deleteComment has returned successfully after a createReply on the same
\* comment had, and neither table holds the comment or a reply of it.
C14_Witness ==
    \E c, d \in Callers :
        /\ calls[c].op = "deleteComment"
        /\ calls[c].pc = "done" /\ calls[c].status = "ok"
        /\ calls[d].op = "createReply" /\ calls[d].status = "ok"
        /\ calls[d].comment_id = calls[c].target.id
        /\ NoReplyOf(replies \cup replies_by_comment_time, calls[c].target.id)
        /\ NoRowOf(comments \cup comments_by_video_time, calls[c].target.id)

\* The replyCount a table holds for a comment.
ReplyCountIn(tbl, id) == (CHOOSE r \in tbl : r.id = id).reply_count

\* C15: when a deleteReply on an existing reply returns successfully, the
\* reply is in neither replies nor the by-comment index, and the replyCount
\* of the parent comment is max(0, previous replyCount - 1) in comments and
\* in the by-video index.  The previous value is the one of the row that
\* the call's last step writes, or reads when nothing is written.
C15_DeleteReplyDecrements ==
    [][\A c \in Callers :
        ReturnsOk(c, "deleteReply") =>
            LET parent == calls[c].id
                previous == IF calls[c].pending = {"index"}
                            THEN ReplyCountIn(comments_by_video_time, parent)
                            ELSE ReplyCountIn(comments, parent)
                expected == IF previous > 0 THEN previous - 1 ELSE 0
            IN /\ NoRowOf(replies', calls[c].target.id)
               /\ NoRowOf(replies_by_comment_time', calls[c].target.id)
               /\ \E r \in comments' : r.id = parent
               /\ \E r \in comments_by_video_time' : r.id = parent
               /\ ReplyCountIn(comments', parent) = expected
               /\ ReplyCountIn(comments_by_video_time', parent) = expected]_vars

\* Two deleteReply calls on replies of comment 1 have returned
\* successfully, the second after the replyCount was already 0, and the
\* replyCount is 0 in both tables.
C15_Witness ==
    \E c, d \in Callers :
        /\ c # d
        /\ calls[c].op = "deleteReply" /\ calls[d].op = "deleteReply"
        /\ calls[c].pc = "done" /\ calls[c].status = "ok"
        /\ calls[d].pc = "done" /\ calls[d].status = "ok"
        /\ calls[c].wkind = "update" /\ calls[d].wkind = "none"
        /\ replies = {} /\ replies_by_comment_time = {}
        /\ \E r \in comments : r.id = 1 /\ r.reply_count = 0
        /\ \E r \in comments_by_video_time : r.id = 1 /\ r.reply_count = 0

----------------------------------------------------------------------------
(* Deletes and counter operations issued one after another over a store    *)
(* that may fail any statement.                                             *)

NextFailure ==
    \/ Settled /\ deleteComment
    \/ Settled /\ deleteReply
    \/ Settled /\ likeIncrementComment
    \/ Settled /\ likeDecrementComment
    \/ Settled /\ dislikeIncrementComment
    \/ Settled /\ dislikeDecrementComment
    \/ Settled /\ likeIncrementReply
    \/ Settled /\ likeDecrementReply
    \/ Settled /\ dislikeIncrementReply
    \/ Settled /\ dislikeDecrementReply
    \/ \E c \in Callers : Select(c)
    \/ \E c \in Callers : UpdateInBothTables(c)
    \/ \E c \in Callers : DeleteReplyLookup(c)
    \/ \E c \in Callers : DeleteCommentLookup(c)
    \/ \E c \in Callers : DeleteCommentReplies(c)
    \/ \E c \in Callers : \E w \in {"primary", "index"} : ApplyWrite(c, w)
    \/ \E c \in Callers : \E w \in {"primary", "index"} : FailWrite(c, w)

SpecFailure == InitSerial /\ [][NextFailure]_vars

\* C16 as stated: a counter update on a comment or on a reply one of whose
\* store writes failed reports failure to its caller, never success.
C16_FailedWriteReported ==
    \A c \in Callers :
        (/\ calls[c].op \in CounterOps
         /\ calls[c].pc = "done"
         /\ calls[c].failed) =>
            /\ calls[c].status = "error"
            /\ ~HandlerResponse(calls[c]).success

\* C17 as stated: the response to a mutation that names an id without a row
\* differs from the response to the same mutation when a store call failed.
C17_NotFoundDistinct ==
    \A c, d \in Callers :
        (/\ calls[c].pc = "done" /\ calls[c].error = NotFound
         /\ calls[d].pc = "done" /\ calls[d].error = StoreError
         /\ calls[c].op = calls[d].op) =>
            HandlerResponse(calls[c]) # HandlerResponse(calls[d])

----------------------------------------------------------------------------
(* A client listing the same comment and the same reply again and again as *)
(* the clock moves on, the counters untouched.                              *)

MaxPolls == 2

InitAging ==
    /\ \E likes \in 0..1 : \E dislikes \in 0..1 : \E replyCount \in {0, 1, MaxReplyCount} :
         /\ comments = {CommentRow(1, "v1", ScoreEpoch, likes, dislikes, replyCount)}
         /\ comments_by_video_time =
              {CommentRow(1, "v1", ScoreEpoch, likes, dislikes, replyCount)}
    /\ \E likes \in 0..MaxReplyVotes : \E dislikes \in 0..MaxReplyVotes :
         /\ replies = {ReplyRow(ScoredReplyId, 1, ScoreEpoch, likes, dislikes)}
         /\ replies_by_comment_time =
              {ReplyRow(ScoredReplyId, 1, ScoreEpoch, likes, dislikes)}
    /\ now = ClockAt(0, 0)
    /\ walk = NewWalk("v1", 1, DefaultSort, {})
    /\ last = NoLast
    /\ calls = <<>>
    /\ codec = NoCodec
    /\ client = Ready

\* The clock moves on to a later age.
Advance ==
    /\ \E h \in ScoreHours : \E d \in {-1, 0, 1} :
         /\ ClockAt(h, d) > now
         /\ now' = ClockAt(h, d)
    /\ UNCHANGED <<tables, walk, last, calls, codec, client>>

\* The first page of the comments of the video is requested once more.
PollComments ==
    /\ Len(walk.pages) < MaxPolls
    /\ LET req == Request("v1", 1, NoToken, DefaultSort)
       IN walk' = [walk EXCEPT !.pages =
                      Append(@, [handler |-> "getComments", req |-> req,
                                 resp |-> getComments(req)])]
    /\ UNCHANGED <<tables, now, last, calls, codec, client>>

\* The first page of the replies of the comment is requested once more.
PollReplies ==
    /\ Len(walk.pages) < MaxPolls
    /\ LET req == ReplyRequest(1, 1, NoToken)
       IN walk' = [walk EXCEPT !.pages =
                      Append(@, [handler |-> "getReplies", req |-> req,
                                 resp |-> getReplies(req)])]
    /\ UNCHANGED <<tables, now, last, calls, codec, client>>

NextAging == Advance \/ PollComments \/ PollReplies

SpecAging == InitAging /\ [][NextAging]_vars

\* The score of the one item of poll k.
PolledScore(k) == walk.pages[k].resp.data[1].score

\* C21: with likes, dislikes and replyCount fixed, an entry listed again at
\* a greater age never has a higher score than before, across every
\* breakpoint of the recency bonus.
C21_ScoreNeverRisesWithAge ==
    \A i \in 1..Len(walk.pages) : \A j \in 1..Len(walk.pages) :
        (i < j /\ walk.pages[i].handler = walk.pages[j].handler) =>
            PolledScore(j) <= PolledScore(i)

\* A comment listed when just created and again after more than 672 hours,
\* the second score lower by the whole recency bonus.
C21_Witness ==
    /\ Len(walk.pages) = 2
    /\ walk.pages[1].handler = "getComments"
    /\ walk.pages[2].handler = "getComments"
    /\ now = ClockAt(672, 1)
    /\ PolledScore(2) = PolledScore(1) - 2 * 10

----------------------------------------------------------------------------
(* The age label: of any number of elapsed seconds, and of one comment as  *)
(* the listing returns it.                                                  *)

MaxUnits == 6

\* Elapsed seconds: up to MaxUnits of each unit to the second, one second
\* less and one second more, and less than a minute.
LabelSeconds ==
    {-1, 0, 1, 30}
    \cup {k * intervals[i].seconds + d :
            i \in 1..Len(intervals), k \in 1..MaxUnits, d \in {-1, 0, 1}}

InitLabel ==
    /\ comments = {CommentRow(1, "v1", ScoreEpoch, 0, 0, 0)}
    /\ comments_by_video_time = {CommentRow(1, "v1", ScoreEpoch, 0, 0, 0)}
    /\ replies = {}
    /\ replies_by_comment_time = {}
    /\ \E h \in ScoreHours : \E d \in {-1, 0, 1} : now = ClockAt(h, d)
    /\ walk = NewWalk("v1", 0, "ranked", {})
    /\ last = NoLast
    /\ calls = <<>>
    /\ codec = NoCodec
    /\ client = Ready

\* The loop of formatTimeAgo is run on a number of elapsed seconds.
Label ==
    /\ last.handler = "none"
    /\ \E seconds \in LabelSeconds :
         last' = [handler |-> "formatTimeAgo", req |-> seconds,
                  resp |-> TimeAgoFrom(1, seconds)]
    /\ UNCHANGED <<tables, now, walk, calls, codec, client>>

NextLabel == Label \/ ScoreComments

SpecLabel == InitLabel /\ [][NextLabel]_vars

\* The units of the age label and their seconds.
LabelUnits ==
    {<<"year", 31536000>>, <<"month", 2592000>>, <<"week", 7 * 86400>>,
     <<"day", 86400>>, <<"hour", 3600>>, <<"minute", 60>>}

\* The label the age of so many elapsed seconds calls for: the largest unit
\* that fits at least once, in the plural when it fits more than once.
ExpectedLabel(seconds) ==
    LET fitting == {u \in LabelUnits : seconds >= u[2]}
    IN IF fitting = {} THEN [count |-> 0, unit |-> "just now"]
       ELSE LET u == CHOOSE v \in fitting : \A w \in fitting : w[2] <= v[2]
                count == seconds \div u[2]
            IN [count |-> count,
                unit |-> IF count > 1 THEN u[1] \o "s" ELSE u[1]]

\* The whole seconds elapsed at an age of h hours and d milliseconds.
WholeSeconds(h, d) == h * 3600 + (IF d < 0 THEN -1 ELSE 0)

\* C23: the age label is '<count> <unit> ago' for the largest unit among
\* year, month, week, day, hour, minute whose whole count of the elapsed
\* seconds is at least 1, the unit in the plural exactly when the count is
\* above 1, and 'just now' under one minute; so for every number of elapsed
\* seconds, and so for the label of a listed comment of every age.
C23_AgeLabel ==
    /\ last.handler = "formatTimeAgo" => last.resp = ExpectedLabel(last.req)
    /\ \A c \in Scored("getComments") : \A h \in ScoreHours : \A d \in {-1, 0, 1} :
         Aged(c, h, d) => c.timeAgo = ExpectedLabel(WholeSeconds(h, d))

\* Two years less one second labelled '1 year ago'.
C23_Witness ==
    /\ last.handler = "formatTimeAgo"
    /\ last.req = 2 * 31536000 - 1
    /\ last.resp = [count |-> 1, unit |-> "year"]

----------------------------------------------------------------------------
(* Further properties of the walk: the size of a page and its has_more *)

\* The rows of the walked video below every item of a page.
BelowPage(data) ==
    {r \in walk.start : \A j \in 1..Len(data) : KeyLess(r, data[j])}

\* C24: on every page has_more is true exactly when the index returned more
\* rows than the page size asked for, which for a page with items is exactly
\* when some comment of the video lies strictly below the last item of the
\* page in index order; and no page holds more items than the page size.
C24_HasMoreIffOverfetched ==
    \A i \in 1..Len(walk.pages) :
        LET p == walk.pages[i] IN
        p.resp.status = 200 =>
            /\ p.resp.has_more = (Len(p.resp.fetched) > p.req.limit)
            /\ Len(p.resp.data) <= p.req.limit
            /\ p.resp.data # <<>> =>
                 (p.resp.has_more <=> BelowPage(p.resp.data) # {})

\* Four comments walked two by two: the second page is full and the last.
C24_Witness ==
    /\ Cardinality(walk.start) = 4
    /\ walk.limit = 2
    /\ walk.status = "done"
    /\ Len(walk.pages) = 2
    /\ Len(walk.pages[2].resp.data) = 2
    /\ walk.pages[1].resp.has_more
    /\ ~walk.pages[2].resp.has_more

----------------------------------------------------------------------------
(* Further properties of the walk: the display order of a page *)

\* C25: the items of a ranked page are in order of non-increasing score, and
\* two items of equal score are in the order of the index, the later created
\* (on a tie the larger id) first.
C25_RankedOrderStable ==
    \A i \in 1..Len(walk.pages) :
        LET data == walk.pages[i].resp.data IN
        \A j, k \in 1..Len(data) :
            j < k =>
                /\ data[j].score >= data[k].score
                /\ data[j].score = data[k].score => KeyLess(data[k], data[j])

\* A page of three: the liked comment, the oldest of the three, comes first
\* and the two others, of equal score, follow in index order.
C25_Witness ==
    /\ Len(walk.pages) >= 1
    /\ LET data == walk.pages[1].resp.data IN
         /\ Len(data) = 3
         /\ data[1].score > data[2].score
         /\ data[2].score = data[3].score
         /\ KeyLess(data[1], data[3])
         /\ KeyLess(data[3], data[2])

----------------------------------------------------------------------------
(* Listings of replies: flat under one comment, and nested under the       *)
(* comments of a page.                                                     *)

MaxNested == 3

\* m replies with ids above those of the comments, each under comment 1 or 2,
\* created at any times, at most one of them liked once.
NestedReplies(m, parent, t, liked) ==
    {ReplyRow(MaxId + 1 + j, parent[j], t[j], IF j = liked THEN 1 ELSE 0, 0) :
        j \in 1..m}

InitNested ==
    /\ \E t \in [1..2 -> Times] : \E liked \in 0..2 :
         /\ comments = WalkStore(2, t, liked)
         /\ comments_by_video_time = WalkStore(2, t, liked)
    /\ \E m \in 0..MaxNested : \E parent \in [1..m -> 1..2] :
       \E t \in [1..m -> Times] : \E liked \in 0..m :
         /\ replies = NestedReplies(m, parent, t, liked)
         /\ replies_by_comment_time = NestedReplies(m, parent, t, liked)
    /\ now = MaxTime
    /\ walk = NewWalk("v1", 0, "ranked", {})
    /\ last = NoLast
    /\ calls = <<>>
    /\ codec = NoCodec
    /\ client = Ready

ListNested ==
    /\ last.handler = "none"
    /\ \E limit \in 0..MaxLimit : \E repliesLimit \in 0..MaxLimit :
         LET req == NestedRequest("v1", limit, NoToken, repliesLimit)
         IN last' = [handler |-> "getComments", req |-> req,
                     resp |-> getCommentsNested(req)]
    /\ UNCHANGED <<tables, now, walk, calls, codec, client>>

ListFlatReplies ==
    /\ last.handler = "none"
    /\ \E commentId \in 1..2 : \E limit \in 0..MaxLimit :
         LET req == ReplyRequest(commentId, limit, NoToken)
         IN last' = [handler |-> "getReplies", req |-> req, resp |-> getReplies(req)]
    /\ UNCHANGED <<tables, now, walk, calls, codec, client>>

NextNested == ListNested \/ ListFlatReplies

SpecNested == InitNested /\ [][NextNested]_vars

\* The items of a sequence are in order of non-increasing score.
ScoreDescending(items) ==
    \A j, k \in 1..Len(items) : j < k => items[j].score >= items[k].score

\* C26: a flat listing of the replies of a comment, asked for without
\* sort=chronological, returns the replies of the page in order of descending
\* score.
C26_FlatRepliesRanked ==
    (last.handler = "getReplies" /\ last.resp.status = 200) =>
        ScoreDescending(last.resp.data)

\* The replies of a comment in the index.
RepliesOf(commentId) == {r \in replies_by_comment_time : r.comment_id = commentId}

\* C27: in a nested listing every comment carries at most replies_limit
\* replies, each of them a reply of that comment, in order of non-increasing
\* reply score, and no reply of the comment left out scores higher than one
\* attached.
C27_NestedReplies ==
    (last.handler = "getComments" /\ last.resp.status = 200) =>
        \A i \in 1..Len(last.resp.data) :
            LET comment == last.resp.data[i]
                attached == Items(comment.replies)
            IN /\ Len(comment.replies) <= last.req.replies_limit
               /\ Cardinality(attached) = Len(comment.replies)
               /\ \A r \in attached :
                    /\ r.comment_id = comment.id
                    /\ \E row \in RepliesOf(comment.id) :
                         /\ row.id = r.id
                         /\ r = RankedReply(row)
               /\ ScoreDescending(comment.replies)
               /\ \A row \in RepliesOf(comment.id) :
                    row.id \notin {r.id : r \in attached} =>
                        /\ Len(comment.replies) = last.req.replies_limit
                        /\ \A r \in attached : r.score >= RankedReply(row).score

\* A comment with three replies listed with replies_limit 2: the liked
\* reply, the oldest, comes first and the newest second, the third is left
\* out.
C27_Witness ==
    /\ last.handler = "getComments"
    /\ last.resp.status = 200
    /\ last.req.replies_limit = 2
    /\ \E i \in 1..Len(last.resp.data) :
         LET comment == last.resp.data[i] IN
         /\ Cardinality(RepliesOf(comment.id)) = 3
         /\ Len(comment.replies) = 2
         /\ comment.replies[1].score > comment.replies[2].score
         /\ \A row \in RepliesOf(comment.id) :
              row.id # comment.replies[1].id => KeyLess(comment.replies[1], row)

----------------------------------------------------------------------------
(* A listing with page size 0 *)

\* The index rows of the parent the last request named.
ParentRows ==
    IF last.handler = "getComments"
    THEN {r \in comments_by_video_time : r.video_id = last.req.videoId}
    ELSE {r \in replies_by_comment_time : r.comment_id = last.req.commentId}

\* The row lies below the position a well-formed cursor names; without a
\* cursor every row does.
BelowCursor(row, token) ==
    \/ token = NoToken
    \/ LET t == token.createdAt[1] * MsPerSecond + token.createdAt[2]
       IN row.created_at < t \/ (row.created_at = t /\ row.id < token.id)

\* The last request was answered with a page and had page size 0 and no
\* cursor or a well-formed one that names a date.
ZeroListing ==
    /\ last.handler \in {"getComments", "getReplies"}
    /\ last.resp.status = 200
    /\ last.req.limit = 0
    /\ \/ last.req.cursor = NoToken
       \/ ~Malformed(last.req.cursor) /\ last.req.cursor.createdAt # NotADate

\* C29: a listing with page size 0 returns no items, and its has_more is true
\* exactly when the parent has at least one entry below the seek position.
C29_ZeroDesired ==
    ZeroListing =>
        /\ last.resp.data = <<>>
        /\ last.resp.has_more <=>
             \E row \in ParentRows : BelowCursor(row, last.req.cursor)

\* Page size 0 with a cursor at the oldest comment of a video that has two:
\* nothing lies below, has_more is false.
C29_Witness ==
    /\ ZeroListing
    /\ last.handler = "getComments"
    /\ last.req.cursor # NoToken
    /\ Cardinality(ParentRows) = 2
    /\ ~last.resp.has_more

\* Page size 0 without cursor on a comment that has replies: has_more is true.
C29_WitnessMore ==
    /\ ZeroListing
    /\ last.handler = "getReplies"
    /\ ParentRows # {}
    /\ last.resp.has_more
    /\ last.resp.data = <<>>

----------------------------------------------------------------------------
(* Concurrent increments of one counter *)

\* The call of caller c is an increment that has written its value to both
\* tables and returned.
IncrementDone(c) ==
    /\ calls[c].delta = 1
    /\ calls[c].pc = "done"
    /\ calls[c].status = "ok"
    /\ calls[c].wkind = "update"
    /\ calls[c].pending = {}

\* Two callers have each incremented the same counter of the same entity and
\* both computed the same new value: both read the counter before either
\* wrote it.
SameRead(c1, c2) ==
    /\ c1 # c2
    /\ IncrementDone(c1) /\ IncrementDone(c2)
    /\ calls[c1].entity = calls[c2].entity
    /\ calls[c1].id = calls[c2].id
    /\ calls[c1].field = calls[c2].field
    /\ calls[c1].value = calls[c2].value

\* C30: two concurrent increments of the same counter can lose an update.
\* When both callers read the counter before either wrote, both write the
\* value read plus 1, and after both have returned the counter holds that
\* value: it has grown by 1 and not by 2.
C30_LostUpdate ==
    \A c1, c2 \in Callers :
        SameRead(c1, c2) =>
            \A r \in PrimaryOf(calls[c1].entity) :
                r.id = calls[c1].id => r[calls[c1].field] = calls[c1].value

\* The only two operations of the run are two likeIncrementComment of the
\* same comment by two callers; both have returned successfully and the
\* likes of the comment, in both tables, are the value each of them wrote.
C30_Witness ==
    \E c1, c2 \in Callers :
        /\ SameRead(c1, c2)
        /\ calls[c1].op = "likeIncrementComment"
        /\ calls[c2].op = "likeIncrementComment"
        /\ calls[c1].n = 1 /\ calls[c2].n = 1
        /\ \E r \in comments : r.id = calls[c1].id /\ r.likes = calls[c1].value
        /\ \E r \in comments_by_video_time :
             r.id = calls[c1].id /\ r.likes = calls[c1].value

----------------------------------------------------------------------------
(* Replies created and deleted one after another under a comment whose     *)
(* reply count starts equal to the number of its replies.                  *)

\* Every call has returned and the store has applied every statement.
Quiet == AllReturned /\ \A c \in Callers : calls[c].pending = {}

InitReplies ==
    /\ \E m \in 0..MaxReplies :
         /\ comments = {CommentRow(1, "v1", 0, 0, 0, m)}
         /\ comments_by_video_time = {CommentRow(1, "v1", 0, 0, 0, m)}
         /\ replies = ReplyStore(m, [j \in 1..m |-> 0])
         /\ replies_by_comment_time = ReplyStore(m, [j \in 1..m |-> 0])
    /\ now = 1
    /\ walk = NewWalk("v1", 0, "ranked", {})
    /\ last = NoLast
    /\ calls = IdleCalls
    /\ codec = NoCodec
    /\ client = Ready

NextReplies ==
    \/ Quiet /\ createReply
    \/ Quiet /\ deleteReply
    \/ \E c \in Callers : Select(c)
    \/ \E c \in Callers : UpdateInBothTables(c)
    \/ \E c \in Callers : DeleteReplyLookup(c)
    \/ \E c \in Callers : \E w \in {"primary", "index"} : ApplyWrite(c, w)

SpecReplies == InitReplies /\ [][NextReplies]_vars

\* The replies of a comment in the primary table.
LiveReplies(commentId) == {r \in replies : r.comment_id = commentId}

\* C31: with createReply and deleteReply issued one after another and no
\* store failure, after every call the reply_count of the comment, in the
\* comments table and in the by-video index, is the number of the replies of
\* the comment.
C31_ReplyCountIsLiveReplies ==
    Quiet =>
        \A r \in comments \cup comments_by_video_time :
            r.reply_count = Cardinality(LiveReplies(r.id))

\* Three calls have returned, the last two a createReply and a deleteReply,
\* and the comment counts the one reply it has.
C31_Witness ==
    /\ Quiet
    /\ SumOps(Callers) = 3
    /\ \E c1, c2 \in Callers :
         /\ calls[c1].op = "createReply" /\ calls[c1].status = "ok"
         /\ calls[c2].op = "deleteReply" /\ calls[c2].status = "ok"
    /\ \E r \in comments : r.id = 1 /\ r.reply_count = 1
    /\ \E r \in comments_by_video_time : r.id = 1 /\ r.reply_count = 1
    /\ Cardinality(LiveReplies(1)) = 1

----------------------------------------------------------------------------
(* Agreement of the two tables after concurrent mutations *)

\* C32: once all the concurrent mutations of an entity have completed, with
\* no store failure, the primary row and the projection row of the entity
\* hold the same likes, dislikes and replyCount.
C32_TablesAgreeWhenQuiet ==
    (Quiet /\ NothingInFlight) =>
        /\ CountersAgree(comments, comments_by_video_time)
        /\ CountersAgree(replies, replies_by_comment_time)

\* Two likeIncrementComment of one comment, the only operations of the run,
\* have both returned and the likes of the two tables differ.
C32_SplitCounters ==
    /\ Quiet /\ NothingInFlight
    /\ SumOps(Callers) = 2
    /\ \A c \in Callers : calls[c].op = "likeIncrementComment" /\ calls[c].status = "ok"
    /\ \E r \in comments : \E q \in comments_by_video_time :
         r.id = q.id /\ r.likes # q.likes

----------------------------------------------------------------------------
(* A comment deleted while its counters are updated *)

NextRace ==
    \/ deleteComment
    \/ likeIncrementComment
    \/ \E c \in Callers : Select(c)
    \/ \E c \in Callers : UpdateInBothTables(c)
    \/ \E c \in Callers : DeleteCommentLookup(c)
    \/ \E c \in Callers : DeleteCommentReplies(c)
    \/ \E c \in Callers : \E w \in {"primary", "index"} : ApplyWrite(c, w)

SpecRace == InitMutations /\ [][NextRace]_vars

\* C33: once a deleteComment has completed and every operation concurrent
\* with it has completed too, neither the comments table nor the by-video
\* index holds a row of the deleted comment.
C33_DeletedStaysDeleted ==
    (Quiet /\ NothingInFlight) =>
        \A c \in Callers :
            (calls[c].op = "deleteComment" /\ calls[c].status = "ok") =>
                /\ NoRowOf(comments, calls[c].target.id)
                /\ NoRowOf(comments_by_video_time, calls[c].target.id)

----------------------------------------------------------------------------
(* Replies and their parent comments *)

\* C34: whenever no operation is in flight and no store call has failed,
\* every reply row of the primary table and of the by-comment index names a
\* comment of the comments table; a createReply under a comment id that does
\* not exist leaves no reply row.
C34_RepliesHaveParent ==
    (Quiet /\ NothingInFlight) =>
        \A r \in replies \cup replies_by_comment_time :
            \E parent \in comments : parent.id = r.comment_id

----------------------------------------------------------------------------
(* The frame of a counter operation *)

\* The rows one table gains, loses or changes in a step are rows of the id,
\* and a row of the id that was there differs in the field at most.
TouchesOnly(tbl, tblNext, id, field) ==
    /\ \A r \in tbl : r.id # id => r \in tblNext
    /\ \A r \in tblNext : r.id # id => r \in tbl
    /\ \A r \in tbl : r.id = id =>
         \E q \in tblNext :
             q.id = id /\ \A f \in (DOMAIN r) \ {field} : q[f] = r[f]

\* The step applies a statement of a counter operation of caller c.
CounterWrite(c) ==
    /\ calls[c].op \in CounterOps
    /\ calls[c].pending # {}
    /\ calls'[c].pending # calls[c].pending

\* A step of a counter operation on a comment leaves the reply tables alone
\* and touches the named counter of the named comment only, and likewise
\* for a reply.
CounterFrame(c) ==
    IF calls[c].entity = "comment"
    THEN /\ TouchesOnly(comments, comments', calls[c].id, calls[c].field)
         /\ TouchesOnly(comments_by_video_time, comments_by_video_time',
                        calls[c].id, calls[c].field)
         /\ UNCHANGED <<replies, replies_by_comment_time>>
    ELSE /\ TouchesOnly(replies, replies', calls[c].id, calls[c].field)
         /\ TouchesOnly(replies_by_comment_time, replies_by_comment_time',
                        calls[c].id, calls[c].field)
         /\ UNCHANGED <<comments, comments_by_video_time>>

\* The only two operations of the run are a likeIncrementComment by c1 and a
\* dislikeIncrementComment by c2 of the same comment, and both have returned.
LikeAndDislike(c1, c2) ==
    /\ calls[c1].op = "likeIncrementComment"
    /\ calls[c2].op = "dislikeIncrementComment"
    /\ calls[c1].id = calls[c2].id
    /\ calls[c1].n = 1 /\ calls[c2].n = 1
    /\ IncrementDone(c1) /\ IncrementDone(c2)

\* C38: a counter operation changes only the counter it names of the entity
\* it names, and no row of another entity; a like increment and a dislike
\* increment of the same comment by concurrent callers both take effect,
\* likes and dislikes each one more once both have returned.
C38_CounterFrame ==
    /\ [][\A c \in Callers : CounterWrite(c) => CounterFrame(c)]_vars
    /\ [](\A c1, c2 \in Callers :
            LikeAndDislike(c1, c2) =>
                \A r \in comments \cup comments_by_video_time :
                    r.id = calls[c1].id =>
                        /\ r.likes = calls[c1].value
                        /\ r.dislikes = calls[c2].value)

\* The comment had one like and no dislike; both increments have returned
\* and it has two likes and one dislike in both tables.
C38_Witness ==
    \E c1, c2 \in Callers :
        /\ LikeAndDislike(c1, c2)
        /\ calls[c1].value = 2 /\ calls[c2].value = 1
        /\ \E r \in comments :
             r.id = calls[c1].id /\ r.likes = 2 /\ r.dislikes = 1
        /\ \E r \in comments_by_video_time :
             r.id = calls[c1].id /\ r.likes = 2 /\ r.dislikes = 1

----------------------------------------------------------------------------
(* Cursor and has_more of a listing response *)

----------------------------------------------------------------------------
(* A walk of one video while callers create and delete comments between    *)
(* its pages.                                                              *)

NextChurn ==
    \/ WalkNext
    \/ SumOps(Callers) < MaxAppends /\ createComment
    \/ SumOps(Callers) < MaxAppends /\ deleteComment
    \/ \E c \in Callers : DeleteCommentLookup(c)
    \/ \E c \in Callers : DeleteCommentReplies(c)
    \/ \E c \in Callers : \E w \in {"primary", "index"} : ApplyWrite(c, w)
    \/ Tick

SpecChurn == InitAppend /\ [][NextChurn]_vars

\* C36: while comments of the video are deleted and created between the
\* page requests of a walk, no comment is returned twice, on one page or on
\* two, and every item of a page lies strictly below, in (createdAt, id)
\* order, the cursor the page was requested with.
C36_ChurnNoRepeat ==
    /\ \A k \in 1..Len(walk.pages) :
         Cardinality(Items(PageKeys(k))) = Len(walk.pages[k].resp.data)
    /\ \A j \in 1..Len(walk.pages) : \A k \in 1..Len(walk.pages) :
         j # k => Items(PageKeys(j)) \cap Items(PageKeys(k)) = {}
    /\ \A k \in 1..Len(walk.pages) :
         LET p == walk.pages[k] IN
         \A i \in 1..Len(p.resp.data) : BelowCursor(p.resp.data[i], p.req.cursor)

\* A finished walk of several pages during which one caller deleted a
\* comment the walk had not reached, so that it was never returned, and
\* another created one.
C36_Witness ==
    /\ walk.status = "done" /\ Len(walk.pages) >= 2
    /\ \E c1, c2 \in Callers :
         /\ calls[c1].op = "deleteComment" /\ calls[c1].status = "ok"
         /\ calls[c2].op = "createComment" /\ calls[c2].status = "ok"
    /\ \E r \in walk.start : Key(r) \notin Items(Visited)

----------------------------------------------------------------------------
(* Termination of the walk: the client goes on requesting pages as long as *)
(* it is told there are more.                                              *)

\* Creation times of n comments: all in one millisecond, cycling through
\* the milliseconds, or two by two.
WalkTimes(n) ==
    {[i \in 1..n |-> 0], [i \in 1..n |-> i % (MaxTime + 1)],
     [i \in 1..n |-> (i \div 2) % (MaxTime + 1)]}

InitWalkFair ==
    /\ \E n \in 0..MaxId : \E t \in WalkTimes(n) : \E liked \in 0..Min(n, 1) :
         /\ comments = WalkStore(n, t, liked)
         /\ comments_by_video_time = WalkStore(n, t, liked)
         /\ \E limit \in 1..MaxLimit :
              walk = NewWalk("v1", limit, DefaultSort, WalkStore(n, t, liked))
    /\ replies = {}
    /\ replies_by_comment_time = {}
    /\ now = MaxTime
    /\ last = NoLast
    /\ calls = <<>>
    /\ codec = NoCodec
    /\ client = Ready

\* Weak fairness of the client's request, WF_vars(WalkNext), with ENABLED
\* <<WalkNext>>_vars written as the state predicate it equals: a request can
\* be made, and adds a page, exactly while the walk is walking.  A client
\* that is told there are more pages asks for the next one.
WalkFairness == []<>(walk.status # "walking") \/ []<><<WalkNext>>_vars

SpecWalkFair == InitWalkFair /\ [][NextWalk]_vars /\ WalkFairness

\* The page requests a walk of N entries by P takes: ceil(N / P), and one
\* when there is no entry.
PagesNeeded ==
    LET N == Cardinality(walk.start)
        P == walk.limit
    IN Max(1, (N + P - 1) \div P)

\* C37: over a parent whose N entries do not change, with a page size P of
\* at least 1, the walk reaches a page with has_more false, and that page is
\* the answer to request number ceil(N / P) (the first when N = 0): no page
\* before it has has_more false and no request follows it.
C37_WalkTerminates ==
    /\ [](walk.limit >= 1 =>
            /\ walk.status \in {"walking", "done"}
            /\ walk.status = "walking" => Len(walk.pages) < PagesNeeded
            /\ walk.status = "done" => Len(walk.pages) = PagesNeeded)
    /\ (walk.limit >= 1 => <>(walk.status = "done"))

\* Five comments walked two by two: done after three requests.
C37_Witness ==
    /\ Cardinality(walk.start) = 5
    /\ walk.limit = 2
    /\ walk.status = "done"
    /\ Len(walk.pages) = 3

----------------------------------------------------------------------------
(* Connection set-up: config/database.ts.  Callers run connectToDatabase   *)
(* and getDatabaseClient concurrently; a step is the code between two      *)
(* awaits, and the store answers each awaited call with success or with    *)
(* failure.                                                                *)

MaxConnects == 3

IdleConnect == [op |-> "none", pc |-> "idle", status |-> "none", got |-> NoClient, n |-> 0]

\* The call returns the client, as it is at that moment.
ReturnClient(call) == [call EXCEPT !.pc = "done", !.status = "ok", !.got = client]

\* The call rejects.
ThrowConnect(call) == [call EXCEPT !.pc = "done", !.status = "error"]

CanCall(c) == calls[c].pc \in {"idle", "done"} /\ calls[c].n < MaxConnects

\* connectToDatabase up to its first await: a client that is set is
\* returned at once; otherwise the Client is constructed and assigned to the
\* module variable, and client.connect() is awaited.
connectToDatabase ==
    \E c \in Callers :
        /\ CanCall(c)
        /\ LET call == [IdleConnect EXCEPT !.op = "connectToDatabase",
                                           !.status = "running",
                                           !.n = calls[c].n + 1]
           IN IF client # NoClient
              THEN /\ calls' = [calls EXCEPT ![c] = ReturnClient(call)]
                   /\ UNCHANGED client
              ELSE /\ calls' = [calls EXCEPT ![c] = [call EXCEPT !.pc = "connect"]]
                   /\ client' = "new"
        /\ UNCHANGED <<tables, now, walk, last, codec>>

\* One awaited step of the set-up is answered: on success the next step is
\* awaited, on failure the error is logged and rethrown, the module variable
\* left as it is.
SetupStep(c, pc, done, next) ==
    /\ calls[c].pc = pc
    /\ \E ok \in BOOLEAN :
         IF ok
         THEN /\ client' = done
              /\ calls' = [calls EXCEPT ![c] = [calls[c] EXCEPT !.pc = next]]
         ELSE /\ client' = "failed"
              /\ calls' = [calls EXCEPT ![c] = ThrowConnect(calls[c])]
    /\ UNCHANGED <<tables, now, walk, last, codec>>

\* await client.connect()
Connect == \E c \in Callers : SetupStep(c, "connect", "connected", "createKeyspace")

\* await createKeyspace()
CreateKeyspace == \E c \in Callers : SetupStep(c, "createKeyspace", "keyspace", "createTables")

\* await createTables()
CreateTables == \E c \in Callers : SetupStep(c, "createTables", Ready, "return")

\* return client
ReturnConnected ==
    \E c \in Callers :
        /\ calls[c].pc = "return"
        /\ calls' = [calls EXCEPT ![c] = ReturnClient(calls[c])]
        /\ UNCHANGED <<tables, now, walk, last, codec, client>>

\* getDatabaseClient: throws when no client is set, returns it otherwise.
getDatabaseClient ==
    \E c \in Callers :
        /\ CanCall(c)
        /\ LET call == [IdleConnect EXCEPT !.op = "getDatabaseClient",
                                           !.status = "running",
                                           !.n = calls[c].n + 1]
           IN calls' = [calls EXCEPT ![c] =
                 IF client = NoClient THEN ThrowConnect(call) ELSE ReturnClient(call)]
        /\ UNCHANGED <<tables, now, walk, last, codec, client>>

InitConnect ==
    /\ comments = {}
    /\ comments_by_video_time = {}
    /\ replies = {}
    /\ replies_by_comment_time = {}
    /\ now = 0
    /\ walk = NewWalk("v1", 0, "ranked", {})
    /\ last = NoLast
    /\ calls = [c \in Callers |-> IdleConnect]
    /\ codec = NoCodec
    /\ client = NoClient

NextConnect ==
    \/ connectToDatabase
    \/ Connect
    \/ CreateKeyspace
    \/ CreateTables
    \/ ReturnConnected
    \/ getDatabaseClient

SpecConnect == InitConnect /\ [][NextConnect]_vars

\* C39: every call of connectToDatabase that returns a client returns it
\* after the connection, the keyspace and the tables have been set up
\* successfully, whatever other calls run at the same time and whatever
\* attempt failed before.
C39_ClientReadyWhenReturned ==
    \A c \in Callers :
        (/\ calls[c].op = "connectToDatabase"
         /\ calls[c].pc = "done"
         /\ calls[c].status = "ok") => calls[c].got = Ready

\* A call made after an attempt has failed is handed the client of the
\* failed attempt.
C39_AfterFailure ==
    \A c \in Callers :
        (/\ calls[c].op = "connectToDatabase"
         /\ calls[c].pc = "done"
         /\ calls[c].status = "ok") => calls[c].got # "failed"

====
